---- MODULE Spec2Model ----
(***************************************************************************)
(* Model of the MCP request/response engine of mcp-career-intelligence:    *)
(* the handler registry (MCPHandlerRegistry), the per-method pipeline      *)
(* (BaseMCPHandler.handle) and the method handlers registered by           *)
(* MCPCareerIntelligenceServer.registerHandlers.                           *)
(*                                                                         *)
(* JSON values are tagged records [t, v]; a missing key and the JavaScript *)
(* value undefined are both Undef.  Strings that the code builds by        *)
(* interpolation are sequences of fragments, so that String.includes can   *)
(* be computed.                                                            *)
(***************************************************************************)
EXTENDS Integers, Sequences, FiniteSets, TLC

VARIABLES
    handlers,   \* MCPHandlerRegistry.handlers: method name -> handler object
    nodeEnv,    \* process.env['NODE_ENV']
    handshake,  \* history of the initialize / initialized exchange
    op,         \* the operation that has just run, "idle" once its caller has the value
    req,        \* its request argument (handleRequest)
    world,      \* what the process environment and the Notion client did during it
    resp,       \* the value it returned
    stages,     \* the stages of BaseMCPHandler.handle it ran, in order
    threw,      \* TRUE when it raised instead of returning
    arg,        \* its argument when it is a registry operation (handler or method)
    handledBy,  \* the handler object whose handle() ran, if one did
    how,        \* the return statement handleRequest left through
    prev,       \* the handler map as it was before it ran
    tr,         \* the transport objects: fields, listeners and history of each
    transports, \* MCPTransportManager.transports: id -> transport object
    pending,    \* message handlers that await their handleRequest or their send
    emitted,    \* the events the transport manager emitted during the operation
    tx,         \* the messages each transport put on its channel during it
    closing,    \* the closeAll() calls that await the closes they started
    stdin,      \* process.stdin: what is still to come, and the events so far
    db          \* the SQLite database of the backend: its tables

vars == <<handlers, nodeEnv, handshake, op, req, world, resp, stages, threw,
          arg, handledBy, how, prev, tr, transports, pending, emitted, tx,
          closing, stdin, db>>

\* the transport layer
tvars == <<tr, transports, pending, emitted, tx, closing, stdin>>

-----------------------------------------------------------------------------
(* Bounds *)

\* number of distinct handler objects per handler class in the registry API runs
MaxInstances == 2

\* number of handlers the registry API runs keep bound at the same time
MaxBound == 2

\* number of transport objects, and of ids the transport manager is called with
MaxTransports == 2

\* number of message handlers in flight at the same time
MaxPending == 1

-----------------------------------------------------------------------------
(* JSON values *)

Undef == [t |-> "undefined"]
Null == [t |-> "null"]
Str(s) == [t |-> "string", v |-> s]
Num(n) == [t |-> "number", v |-> n]
Bool(b) == [t |-> "boolean", v |-> b]
Arr(a) == [t |-> "array", v |-> a]
Obj(f) == [t |-> "object", v |-> f]
EmptyObj == Obj(<<>>)

\* value[key] of JavaScript: undefined for a key the object does not have
Get(value, key) ==
    IF value.t = "object" /\ key \in DOMAIN value.v THEN value.v[key] ELSE Undef

\* JavaScript truthiness of a JSON value
Truthy(value) ==
    CASE value.t \in {"undefined", "null"} -> FALSE
      [] value.t = "string" -> value.v /= ""
      [] value.t = "number" -> value.v /= "0"
      [] value.t = "boolean" -> value.v = "true"
      [] OTHER -> TRUE

-----------------------------------------------------------------------------
(* Error codes *)

PARSE_ERROR == -32700
INVALID_REQUEST == -32600
METHOD_NOT_FOUND == -32601
INVALID_PARAMS == -32602
INTERNAL_ERROR == -32603
INITIALIZATION_FAILED == -32000
RESOURCE_NOT_FOUND == -32001
TOOL_EXECUTION_ERROR == -32002
TRANSPORT_ERROR == -32005

\* new MCPError(code, message, data)
MCPError(code, message, data) ==
    [kind |-> "MCPError", code |-> code, message |-> message, data |-> data]

\* any other thrown value (TypeError, URIError, an error of the Notion client)
PlainError(message) ==
    [kind |-> "Error", code |-> 0, message |-> message, data |-> Undef]

\* MCPError.toJSONRPCError
toJSONRPCError(error) ==
    [code |-> error.code, message |-> error.message, data |-> error.data]

\* what a call produced: a returned value or a thrown error
Returned(value) == [thrown |-> FALSE, value |-> value, error |-> Undef]
Thrown(error) == [thrown |-> TRUE, value |-> Undef, error |-> error]

\* error.message.includes('Notion API')
NotionAPIFragments == {"Notion API request failed"}
IncludesNotionAPI(message) ==
    \E i \in 1..Len(message) : message[i] \in NotionAPIFragments

-----------------------------------------------------------------------------
(* Joi schemas, as the handlers declare them *)

JoiString(required) == [k |-> "string", required |-> required]
JoiNumber(required) == [k |-> "number", required |-> required]
JoiBoolean(required) == [k |-> "boolean", required |-> required]
JoiAlternatives(alts) == [k |-> "alternatives", required |-> FALSE, alts |-> alts]
\* Joi.object(): any keys
JoiObjectAny(required) ==
    [k |-> "object", required |-> required, keyed |-> FALSE,
     order |-> <<>>, keys |-> <<>>]
\* Joi.object({...}): the listed keys, in declaration order
JoiObject(required, order, keys) ==
    [k |-> "object", required |-> required, keyed |-> TRUE,
     order |-> order, keys |-> keys]

NoSchema == [k |-> "none"]

CursorSchema == JoiObject(FALSE, <<"cursor">>, [cursor |-> JoiString(FALSE)])

UriSchema == JoiObject(FALSE, <<"uri">>, [uri |-> JoiString(TRUE)])

ListChangedSchema ==
    JoiObject(FALSE, <<"listChanged">>, [listChanged |-> JoiBoolean(FALSE)])

ToolsCallSchema ==
    JoiObject(FALSE, <<"name", "arguments", "progressToken">>,
        [name |-> JoiString(TRUE),
         arguments |-> JoiObjectAny(FALSE),
         progressToken |-> JoiAlternatives(<<JoiString(FALSE), JoiNumber(FALSE)>>)])

InitializeSchema ==
    JoiObject(FALSE, <<"protocolVersion", "capabilities", "clientInfo">>,
        [protocolVersion |-> JoiString(TRUE),
         capabilities |->
            JoiObject(TRUE,
                <<"experimental", "sampling", "tools", "resources", "prompts",
                  "logging", "roots">>,
                [experimental |-> JoiObjectAny(FALSE),
                 sampling |-> JoiObjectAny(FALSE),
                 tools |-> ListChangedSchema,
                 resources |->
                    JoiObject(FALSE, <<"subscribe", "listChanged">>,
                        [subscribe |-> JoiBoolean(FALSE),
                         listChanged |-> JoiBoolean(FALSE)]),
                 prompts |-> ListChangedSchema,
                 logging |-> JoiObjectAny(FALSE),
                 roots |-> ListChangedSchema]),
         clientInfo |->
            JoiObject(TRUE, <<"name", "version">>,
                [name |-> JoiString(TRUE), version |-> JoiString(TRUE)])])

\* getParamsSchema of the handler class bound to a method
getParamsSchema(method) ==
    CASE method \in {"tools/list", "resources/list", "resources/templates/list"}
            -> CursorSchema
      [] method = "tools/call" -> ToolsCallSchema
      [] method \in {"resources/read", "resources/subscribe", "resources/unsubscribe"}
            -> UriSchema
      [] method = "initialize" -> InitializeSchema
      [] OTHER -> NoSchema

-----------------------------------------------------------------------------
(* schema.validate(value): Joi with its default options (abortEarly, convert, *)
(* no allowUnknown).  The result is error.details: empty when the value      *)
(* passes, else the first violated constraint with its path.                 *)

Detail(path, type) == <<[path |-> path, type |-> type]>>

RECURSIVE JoiValidate(_, _, _)
RECURSIVE JoiValidateKeys(_, _, _, _)

\* the keys of an object schema, in order; the first failing key ends the run
JoiValidateKeys(schema, value, path, i) ==
    IF i > Len(schema.order)
    THEN <<>>
    ELSE LET key == schema.order[i]
             details == JoiValidate(schema.keys[key], Get(value, key),
                                    Append(path, key))
         IN IF details /= <<>>
            THEN details
            ELSE JoiValidateKeys(schema, value, path, i + 1)

\* faulty variant: the schema is validated with allowUnknown
UnknownKeys_AllowUnknown(schema, value) == {}

\* keys of the value the schema does not name (keys holding undefined are skipped)
UnknownKeys(schema, value) ==
    {key \in DOMAIN value.v :
        /\ value.v[key] /= Undef
        /\ \A i \in 1..Len(schema.order) : schema.order[i] /= key}

JoiValidate(schema, value, path) ==
    IF value = Undef
    THEN IF schema.required THEN Detail(path, "any.required") ELSE <<>>
    ELSE CASE schema.k = "string" ->
                IF value.t /= "string" THEN Detail(path, "string.base")
                ELSE IF value.v = "" THEN Detail(path, "string.empty")
                ELSE <<>>
           [] schema.k = "number" ->
                IF value.t = "number" THEN <<>> ELSE Detail(path, "number.base")
           [] schema.k = "boolean" ->
                IF \/ value.t = "boolean"
                   \/ value.t = "string" /\ value.v \in {"true", "false"}
                THEN <<>>
                ELSE Detail(path, "boolean.base")
           [] schema.k = "alternatives" ->
                IF \E i \in 1..Len(schema.alts) :
                        JoiValidate(schema.alts[i], value, path) = <<>>
                THEN <<>>
                ELSE Detail(path, "alternatives.types")
           [] schema.k = "object" ->
                IF value.t /= "object" THEN Detail(path, "object.base")
                ELSE IF ~schema.keyed THEN <<>>
                ELSE LET details == JoiValidateKeys(schema, value, path, 1)
                     IN IF details /= <<>> THEN details
                        ELSE IF UnknownKeys(schema, value) /= {}
                        THEN Detail(
                                Append(path, CHOOSE key \in UnknownKeys(schema, value) : TRUE),
                                "object.unknown")
                        ELSE <<>>

-----------------------------------------------------------------------------
(* Handler classes: execute *)

\* the methods registerHandlers binds, in registration order
RegisteredAtStartup ==
    <<"initialize", "initialized", "tools/list", "tools/call", "resources/list",
      "resources/templates/list", "resources/read", "resources/subscribe",
      "resources/unsubscribe">>

HandlerMethods == {RegisteredAtStartup[i] : i \in 1..Len(RegisteredAtStartup)}

\* faulty variant: a version is accepted when it starts like a supported one
isProtocolVersionSupported_Prefix(version) ==
    version \in {"2024-11-05", "2024-11"}

\* InitializeHandler.isProtocolVersionSupported
supportedVersions == <<"2024-11-05">>

isProtocolVersionSupported(version) ==
    \E i \in 1..Len(supportedVersions) : supportedVersions[i] = version

\* the capability declaration built by InitializeHandler.execute
serverCapabilities ==
    Obj([tools |-> Obj([listChanged |-> Bool("true")]),
         resources |-> Obj([subscribe |-> Bool("true"), listChanged |-> Bool("true")]),
         prompts |-> Obj([listChanged |-> Bool("true")]),
         logging |-> EmptyObj])

\* this.serverInfo, from the server configuration
serverInfo == Obj([name |-> Str("mcp-career-intelligence"), version |-> Str("1.0.0")])

\* a property read on validated params: params.name with params undefined
\* is a TypeError
ReadsUndefined(params) == params.t \in {"undefined", "null"}

TypeError == PlainError(<<"Cannot read properties of undefined">>)

\* faulty variant: the result mirrors the capabilities the client declared
InitializeExecute_EchoCapabilities(params) ==
    IF ReadsUndefined(params)
    THEN Thrown(TypeError)
    ELSE Returned(Obj([protocolVersion |-> Get(params, "protocolVersion"),
                       capabilities |-> Get(params, "capabilities"),
                       serverInfo |-> serverInfo,
                       instructions |-> Str("# MCP Career Intelligence Server")]))

InitializeExecute(params) ==
    IF ReadsUndefined(params)
    THEN Thrown(TypeError)
    ELSE LET version == Get(params, "protocolVersion").v
         IN IF ~isProtocolVersionSupported(version)
            THEN Thrown(MCPError(INITIALIZATION_FAILED,
                    <<"Unsupported protocol version: ", version,
                      ". Supported versions: 2024-11-05">>,
                    Obj([supportedVersions |-> Arr(<<"2024-11-05">>)])))
            ELSE Returned(Obj([protocolVersion |-> Str("2024-11-05"),
                               capabilities |-> serverCapabilities,
                               serverInfo |-> serverInfo,
                               instructions |-> Str("# MCP Career Intelligence Server")]))

\* faulty variant: execute forgets its return statement
InitializedExecute_Void == Returned(Undef)

InitializedExecute == Returned(EmptyObj)

ToolNames ==
    <<"get_career_initiatives", "get_achievements", "get_tasks",
      "search_career_data", "get_skill_analysis">>

ToolsListExecute ==
    Returned(Obj([tools |-> Arr(ToolNames), nextCursor |-> Undef]))

\* the message of the error a failing Notion client call raises
NotionFailure(down) ==
    IF down.notion = "failNotionAPI"
    THEN <<"Notion API request failed">>
    ELSE <<"connect ETIMEDOUT">>

\* getCareerInitiatives, getAchievements, getTasks
QueryTool(label, down) ==
    IF ~down.db
    THEN Thrown(MCPError(INTERNAL_ERROR,
            <<"Notion ", label, " database ID not configured">>, Undef))
    ELSE IF down.notion = "ok"
    THEN Returned(Obj([content |-> Arr(<<"text">>)]))
    ELSE Thrown(MCPError(TOOL_EXECUTION_ERROR,
            <<"Failed to fetch ", label, ": ">> \o NotionFailure(down), Undef))

\* searchCareerData: for (const dataType of dataTypes) needs an iterable;
\* a failing query inside the loop is recorded in the result, not raised
searchCareerData(args) ==
    LET given == Get(args, "data_types")
        dataTypes == IF Truthy(given) THEN given
                     ELSE Arr(<<"initiatives", "achievements", "tasks">>)
    IN IF dataTypes.t \in {"array", "string"}
       THEN Returned(Obj([content |-> Arr(<<"text">>)]))
       ELSE Thrown(PlainError(<<"dataTypes is not iterable">>))

getSkillAnalysis == Returned(Obj([content |-> Arr(<<"text">>)]))

\* the switch of ToolsCallHandler.execute
ToolsCallDispatch(name, args, down) ==
    CASE name = "get_career_initiatives" -> QueryTool("initiatives", down)
      [] name = "get_achievements" -> QueryTool("achievements", down)
      [] name = "get_tasks" -> QueryTool("tasks", down)
      [] name = "search_career_data" -> searchCareerData(args)
      [] name = "get_skill_analysis" -> getSkillAnalysis
      [] OTHER -> Thrown(MCPError(METHOD_NOT_FOUND, <<"Unknown tool: ", name>>, Undef))

\* ToolsCallHandler.execute: the catch turns an error that mentions the
\* Notion API into an isError result and rethrows every other error
ToolsCallExecute(params, down) ==
    IF ReadsUndefined(params)
    THEN Thrown(TypeError)
    ELSE LET given == Get(params, "arguments")
             args == IF Truthy(given) THEN given ELSE EmptyObj
             outcome == ToolsCallDispatch(Get(params, "name").v, args, down)
         IN IF outcome.thrown /\ IncludesNotionAPI(outcome.error.message)
            THEN Returned(Obj([content |-> Arr(<<"text">>), isError |-> Bool("true")]))
            ELSE outcome

ResourcesListExecute ==
    Returned(Obj([resources |->
                    Arr(<<"notion://initiatives", "notion://achievements",
                          "notion://tasks", "notion://career-summary">>),
                  nextCursor |-> Str("cursor-123")]))

ResourceTemplatesListExecute ==
    Returned(Obj([resourceTemplates |->
                    Arr(<<"notion://initiatives/{id}", "notion://achievements/{id}",
                          "notion://tasks/{id}", "notion://search/{query}">>),
                  nextCursor |-> Undef]))

\* uri.startsWith('notion://')
startsWithNotion(uri) ==
    uri \in {"notion://initiatives", "notion://achievements/a1", "notion://tasks",
             "notion://career-summary", "notion://search", "notion://search/docker",
             "notion://search/%E0%A4%A", "notion://prompts"}

\* uri.replace('notion://', '').split('/')
pathParts(uri) ==
    CASE uri = "notion://initiatives" -> <<"initiatives">>
      [] uri = "notion://achievements/a1" -> <<"achievements", "a1">>
      [] uri = "notion://tasks" -> <<"tasks">>
      [] uri = "notion://career-summary" -> <<"career-summary">>
      [] uri = "notion://search" -> <<"search">>
      [] uri = "notion://search/docker" -> <<"search", "docker">>
      [] uri = "notion://search/%E0%A4%A" -> <<"search", "%E0%A4%A">>
      [] uri = "notion://prompts" -> <<"prompts">>
      [] OTHER -> <<uri>>

\* decodeURIComponent raises URIError on a truncated escape sequence
decodeFails(part) == part = "%E0%A4%A"

\* readInitiatives, readAchievements, readTasks: the Notion client's error
\* is not caught there
ReadDatabase(label, down) ==
    IF ~down.db
    THEN Thrown(MCPError(INTERNAL_ERROR,
            <<"Notion ", label, " database ID not configured">>, Undef))
    ELSE IF down.notion = "ok"
    THEN Returned(Obj([contents |-> Arr(<<label>>)]))
    ELSE Thrown(PlainError(NotionFailure(down)))

\* the switch of ResourcesReadHandler.execute
ResourcesReadDispatch(parts, down) ==
    CASE parts[1] = "initiatives" -> ReadDatabase("initiatives", down)
      [] parts[1] = "achievements" -> ReadDatabase("achievements", down)
      [] parts[1] = "tasks" -> ReadDatabase("tasks", down)
      [] parts[1] = "career-summary" -> Returned(Obj([contents |-> Arr(<<"summary">>)]))
      [] parts[1] = "search" ->
            IF Len(parts) < 2
            THEN Thrown(MCPError(INVALID_PARAMS, <<"Search query required">>, Undef))
            ELSE IF decodeFails(parts[2])
            THEN Thrown(PlainError(<<"URI malformed">>))
            ELSE Returned(Obj([contents |-> Arr(<<"search">>)]))
      [] OTHER -> Thrown(MCPError(RESOURCE_NOT_FOUND,
                    <<"Unknown resource type: ", parts[1]>>, Undef))

\* faulty variant: a uri of another scheme is reported as invalid params
ResourcesReadExecute_SchemeIsParamError(params, down) ==
    IF ReadsUndefined(params)
    THEN Thrown(TypeError)
    ELSE LET uri == Get(params, "uri").v
         IN IF ~startsWithNotion(uri)
            THEN Thrown(MCPError(INVALID_PARAMS,
                    <<"Unsupported URI scheme: ", uri>>, Undef))
            ELSE ResourcesReadDispatch(pathParts(uri), down)

\* ResourcesReadHandler.execute
ResourcesReadExecute(params, down) ==
    IF ReadsUndefined(params)
    THEN Thrown(TypeError)
    ELSE LET uri == Get(params, "uri").v
         IN IF ~startsWithNotion(uri)
            THEN Thrown(MCPError(RESOURCE_NOT_FOUND,
                    <<"Unsupported URI scheme: ", uri>>, Undef))
            ELSE LET outcome == ResourcesReadDispatch(pathParts(uri), down)
                 IN IF outcome.thrown /\ IncludesNotionAPI(outcome.error.message)
                    THEN Thrown(MCPError(INTERNAL_ERROR,
                            <<"Failed to read resource: ">> \o outcome.error.message,
                            Undef))
                    ELSE outcome

\* ResourcesSubscribeHandler.execute and ResourcesUnsubscribeHandler.execute
SubscriptionExecute(params) ==
    IF ReadsUndefined(params) THEN Thrown(TypeError) ELSE Returned(EmptyObj)

\* execute of the handler class bound to a method
execute(method, params, downstream) ==
    CASE method = "initialize" -> InitializeExecute(params)
      [] method = "initialized" -> InitializedExecute
      [] method = "tools/list" -> ToolsListExecute
      [] method = "tools/call" -> ToolsCallExecute(params, downstream)
      [] method = "resources/list" -> ResourcesListExecute
      [] method = "resources/templates/list" -> ResourceTemplatesListExecute
      [] method = "resources/read" -> ResourcesReadExecute(params, downstream)
      [] OTHER -> SubscriptionExecute(params)

-----------------------------------------------------------------------------
(* BaseMCPHandler *)

\* a handler object: an instance of the handler class for `method`
Handler(method, inst) == [method |-> method, inst |-> inst]

\* faulty variant: the version check is left out
validateRequest_NoVersionCheck(handler, request) ==
    IF request.method /= handler.method
    THEN MCPError(METHOD_NOT_FOUND,
            <<"Expected method '", handler.method, "', got '", request.method, "'">>,
            Undef)
    ELSE Undef

\* BaseMCPHandler.validateRequest: the error it throws, or Undef
validateRequest(handler, request) ==
    IF request.jsonrpc /= Str("2.0")
    THEN MCPError(INVALID_REQUEST, <<"Invalid JSON-RPC version">>, Undef)
    ELSE IF request.method /= handler.method
    THEN MCPError(METHOD_NOT_FOUND,
            <<"Expected method '", handler.method, "', got '", request.method, "'">>,
            Undef)
    ELSE Undef

\* BaseMCPHandler.validateParams: the validated params, or the error thrown
validateParams(handler, params) ==
    LET schema == getParamsSchema(handler.method)
    IN IF schema = NoSchema
       THEN Returned(IF Truthy(params) THEN params ELSE EmptyObj)
       ELSE LET details == JoiValidate(schema, params, <<>>)
            IN IF details /= <<>>
               THEN Thrown(MCPError(INVALID_PARAMS,
                        <<"Parameter validation failed: ", details[1].type>>,
                        Obj([validationDetails |-> Arr(details)])))
               ELSE Returned(params)

\* faulty variant: a parameter validation failure is noted but execute runs anyway
Pipeline_NoShortCircuit(handler, request, downstream) ==
    LET structural == validateRequest(handler, request)
    IN IF structural /= Undef
       THEN [ran |-> <<"validateRequest">>, outcome |-> Thrown(structural)]
       ELSE [ran |-> <<"validateRequest", "validateParams", "execute">>,
             outcome |-> execute(handler.method, request.params, downstream)]

\* the try block of BaseMCPHandler.handle: the stages that ran and what the
\* block produced
Pipeline(handler, request, downstream) ==
    LET structural == validateRequest(handler, request)
    IN IF structural /= Undef
       THEN [ran |-> <<"validateRequest">>, outcome |-> Thrown(structural)]
       ELSE LET validated == validateParams(handler, request.params)
            IN IF validated.thrown
               THEN [ran |-> <<"validateRequest", "validateParams">>,
                     outcome |-> validated]
               ELSE [ran |-> <<"validateRequest", "validateParams", "execute">>,
                     outcome |-> execute(handler.method, validated.value, downstream)]

\* faulty variant: the unexpected-error response is built with id null
Shape_NullIdOnUnexpected(request, outcome, env) ==
    IF ~outcome.thrown
    THEN [jsonrpc |-> "2.0", id |-> request.id, result |-> outcome.value,
          error |-> Undef]
    ELSE IF outcome.error.kind = "MCPError"
    THEN [jsonrpc |-> "2.0", id |-> request.id, result |-> Undef,
          error |-> toJSONRPCError(outcome.error)]
    ELSE [jsonrpc |-> "2.0", id |-> Null, result |-> Undef,
          error |-> [code |-> INTERNAL_ERROR,
                     message |-> <<"Internal server error">>,
                     data |-> Undef]]

\* faulty variant: the original error message is attached whatever NODE_ENV is
Shape_LeaksDetail(request, outcome, env) ==
    IF ~outcome.thrown
    THEN [jsonrpc |-> "2.0", id |-> request.id, result |-> outcome.value,
          error |-> Undef]
    ELSE IF outcome.error.kind = "MCPError"
    THEN [jsonrpc |-> "2.0", id |-> request.id, result |-> Undef,
          error |-> toJSONRPCError(outcome.error)]
    ELSE [jsonrpc |-> "2.0", id |-> request.id, result |-> Undef,
          error |-> [code |-> INTERNAL_ERROR,
                     message |-> <<"Internal server error">>,
                     data |-> Obj([originalError |-> Arr(outcome.error.message)])]]

\* the three return statements of BaseMCPHandler.handle
Shape(request, outcome, env) ==
    IF ~outcome.thrown
    THEN [jsonrpc |-> "2.0", id |-> request.id, result |-> outcome.value,
          error |-> Undef]
    ELSE IF outcome.error.kind = "MCPError"
    THEN [jsonrpc |-> "2.0", id |-> request.id, result |-> Undef,
          error |-> toJSONRPCError(outcome.error)]
    ELSE [jsonrpc |-> "2.0", id |-> request.id, result |-> Undef,
          error |-> [code |-> INTERNAL_ERROR,
                     message |-> <<"Internal server error">>,
                     data |-> IF env = "development"
                              THEN Obj([originalError |-> Arr(outcome.error.message)])
                              ELSE Undef]]

\* BaseMCPHandler.handle
handle(handler, request, downstream, env) ==
    LET run == Pipeline(handler, request, downstream)
    IN [response |-> Shape(request, run.outcome, env),
        ran |-> run.ran,
        exit |-> IF ~run.outcome.thrown THEN "success"
                 ELSE IF run.outcome.error.kind = "MCPError" THEN "known"
                 ELSE "unexpected",
        by |-> handler]

-----------------------------------------------------------------------------
(* MCPHandlerRegistry *)

NoHandler == Undef

\* this.handlers.has(method)
hasHandler(map, method) == method \in DOMAIN map

\* MCPHandlerRegistry.getHandler
getHandler(map, method) == IF hasHandler(map, method) THEN map[method] ELSE NoHandler

\* MCPHandlerRegistry.getRegisteredMethods (Map insertion order is not modelled)
getRegisteredMethods(map) == DOMAIN map

\* this.handlers.set(key, handler)
MapSet(map, key, handler) ==
    [m \in DOMAIN map \cup {key} |-> IF m = key THEN handler ELSE map[m]]

\* faulty variant: delete leaves the entry in the map
MapDelete_KeepEntry(map, key) == map

\* this.handlers.delete(key)
MapDelete(map, key) == [m \in DOMAIN map \ {key} |-> map[m]]

EmptyMap == [m \in {} |-> NoHandler]

\* faulty variant: a second registration silently replaces the first
register_Overwrite(map, handler) ==
    [map |-> MapSet(map, handler.method, handler), threw |-> FALSE]

\* faulty variant: a registration in a registry that is not empty goes
\* under the key of an entry that is there already
register_ReuseKey(map, handler) ==
    IF hasHandler(map, handler.method)
    THEN [map |-> map, threw |-> TRUE]
    ELSE [map |-> MapSet(map,
                         IF DOMAIN map = {} THEN handler.method
                         ELSE CHOOSE key \in DOMAIN map : TRUE,
                         handler),
          threw |-> FALSE]

\* MCPHandlerRegistry.register: the new map, and whether it threw
register(map, handler) ==
    IF hasHandler(map, handler.method)
    THEN [map |-> map, threw |-> TRUE]
    ELSE [map |-> MapSet(map, handler.method, handler), threw |-> FALSE]

\* faulty variant: the unknown-method response carries the InternalError code
handleRequest_WrongCode(map, request, downstream, env) ==
    LET handler == getHandler(map, request.method)
    IN IF handler = NoHandler
       THEN [response |->
                [jsonrpc |-> "2.0", id |-> request.id, result |-> Undef,
                 error |-> [code |-> INTERNAL_ERROR,
                            message |-> <<"Method '", request.method, "' not found">>,
                            data |-> Undef]],
             ran |-> <<>>, exit |-> "notFound", by |-> NoHandler]
       ELSE handle(handler, request, downstream, env)

\* faulty variant: requests other than the handshake's own are refused until
\* the handshake has completed
handleRequest_Gated(map, request, downstream, env) ==
    LET handler == getHandler(map, request.method)
    IN IF handler = NoHandler
       THEN [response |->
                [jsonrpc |-> "2.0", id |-> request.id, result |-> Undef,
                 error |-> [code |-> METHOD_NOT_FOUND,
                            message |-> <<"Method '", request.method, "' not found">>,
                            data |-> Undef]],
             ran |-> <<>>, exit |-> "notFound", by |-> NoHandler]
       ELSE IF \/ request.method = "initialize"
               \/ request.method = "initialized" /\ handshake = "initializing"
               \/ handshake = "initialized"
       THEN handle(handler, request, downstream, env)
       ELSE [response |->
                [jsonrpc |-> "2.0", id |-> request.id, result |-> Undef,
                 error |-> [code |-> INVALID_REQUEST,
                            message |-> <<"Server not initialized">>,
                            data |-> Undef]],
             ran |-> <<>>, exit |-> "known", by |-> handler]

\* MCPHandlerRegistry.handleRequest
handleRequest(map, request, downstream, env) ==
    LET handler == getHandler(map, request.method)
    IN IF handler = NoHandler
       THEN [response |->
                [jsonrpc |-> "2.0", id |-> request.id, result |-> Undef,
                 error |-> [code |-> METHOD_NOT_FOUND,
                            message |-> <<"Method '", request.method, "' not found">>,
                            data |-> Undef]],
             ran |-> <<>>, exit |-> "notFound", by |-> NoHandler]
       ELSE handle(handler, request, downstream, env)

\* the registry as MCPCareerIntelligenceServer.registerHandlers leaves it
RECURSIVE registerHandlers(_, _)
registerHandlers(map, i) ==
    IF i > Len(RegisteredAtStartup)
    THEN map
    ELSE registerHandlers(register(map, Handler(RegisteredAtStartup[i], 1)).map, i + 1)

-----------------------------------------------------------------------------
(* Inputs *)

NodeEnvs == {"production", "development", "test"}

\* request ids: a number, a string, null, and none at all (a notification)
Ids == {Num("1"), Str("req-a"), Null, Undef}

JsonRpcVersions == {Str("2.0"), Str("1.0"), Num("2"), Undef}

\* method names no handler class exists for
UnboundMethods == {"ping", "getCareerInsights"}

Extra == Str("extra")

ClientInfo == Obj([name |-> Str("client"), version |-> Str("0.1")])

InitializeParams(version, capabilities, clientInfo) ==
    Obj([protocolVersion |-> version, capabilities |-> capabilities,
         clientInfo |-> clientInfo])

CursorParams ==
    {Undef, Null, Str("text"), EmptyObj,
     Obj([cursor |-> Str("cursor-123")]),
     Obj([cursor |-> Num("5")]),
     Obj([cursor |-> Str("")]),
     Obj([verbose |-> Extra]),
     Obj([cursor |-> Str("cursor-123"), verbose |-> Extra])}

UriParams(uris) ==
    {Undef, Null, EmptyObj, Obj([uri |-> Num("5")]), Obj([uri |-> Str("")])}
    \cup {Obj([uri |-> Str(u)]) : u \in uris}
    \cup {Obj([uri |-> Str(u), verbose |-> Extra]) : u \in uris}

ReadUris ==
    {"notion://initiatives", "notion://achievements/a1", "notion://tasks",
     "notion://career-summary", "notion://search", "notion://search/docker",
     "notion://search/%E0%A4%A", "notion://prompts", "scheme://unknown/path"}

ToolsCallParams ==
    {Undef, Null, EmptyObj, Obj([name |-> Num("5")]), Obj([name |-> Str("")]),
     Obj([arguments |-> EmptyObj])}
    \cup {Obj([name |-> Str(n)]) :
            n \in {"get_career_initiatives", "get_achievements", "get_tasks",
                   "search_career_data", "get_skill_analysis", "unknown_tool"}}
    \cup {Obj([name |-> Str("get_tasks"), arguments |-> a]) :
            a \in {EmptyObj, Obj([status |-> Str("Blocked")]), Str("text")}}
    \cup {Obj([name |-> Str("search_career_data"),
               arguments |-> Obj([query |-> Str("docker"), data_types |-> d])]) :
            d \in {Arr(<<"tasks">>), Num("5")}}
    \cup {Obj([name |-> Str("get_skill_analysis"), progressToken |-> p]) :
            p \in {Str("token"), Num("7"), Bool("true")}}
    \cup {Obj([name |-> Str(n), verbose |-> Extra]) :
            n \in {"get_tasks", "get_skill_analysis"}}

InitializeParamsSet ==
    {Undef, Null, EmptyObj}
    \cup {InitializeParams(Str(v), c, ClientInfo) :
            v \in {"2024-11-05", "2025-03-26", "2024-11"},
            c \in {EmptyObj, Obj([tools |-> Obj([listChanged |-> Bool("true")])])}}
    \cup {InitializeParams(Str("2024-11-05"), c, ClientInfo) :
            c \in {Obj([experimental |-> Obj([anything |-> Extra])]),
                   Obj([elicitation |-> EmptyObj]),
                   Obj([tools |-> Obj([listChanged |-> Str("yes")])]),
                   Str("text")}}
    \cup {InitializeParams(Num("5"), EmptyObj, ClientInfo),
          InitializeParams(Undef, EmptyObj, ClientInfo),
          InitializeParams(Str("2024-11-05"), Undef, ClientInfo),
          InitializeParams(Str("2025-03-26"), Undef, ClientInfo),
          InitializeParams(Str("2024-11-05"), EmptyObj, Undef),
          InitializeParams(Str("2024-11-05"), EmptyObj, Obj([name |-> Str("client")])),
          InitializeParams(Str("2024-11-05"), EmptyObj,
              Obj([name |-> Str("other"), version |-> Str("9.9")]))}
    \cup {Obj([protocolVersion |-> Str(v), capabilities |-> EmptyObj,
               clientInfo |-> ClientInfo, verbose |-> Extra]) :
            v \in {"2024-11-05", "2025-03-26"}}

\* the params a client may send with a method
ParamsOf(method) ==
    CASE method = "initialize" -> InitializeParamsSet
      [] method = "initialized" -> {Undef, Null, EmptyObj, Obj([verbose |-> Extra])}
      [] method \in {"tools/list", "resources/list", "resources/templates/list"}
            -> CursorParams
      [] method = "tools/call" -> ToolsCallParams
      [] method = "resources/read" -> UriParams(ReadUris)
      [] method \in {"resources/subscribe", "resources/unsubscribe"}
            -> UriParams({"notion://tasks"})
      [] OTHER -> {Undef, EmptyObj}

Request(jsonrpc, id, method, params) ==
    [jsonrpc |-> jsonrpc, id |-> id, method |-> method, params |-> params]

RequestsFor(method) ==
    {Request(j, i, method, p) :
        j \in JsonRpcVersions, i \in Ids, p \in ParamsOf(method)}

Requests == UNION {RequestsFor(m) : m \in HandlerMethods \cup UnboundMethods}

\* the process environment and the Notion client during one execute:
\* db: the NOTION_*_DB_ID the call needs is set; notion: what the client call does
Quiet == [db |-> TRUE, notion |-> "ok"]
Worlds == [db : BOOLEAN, notion : {"ok", "fail", "failNotionAPI"}]

\* the requests whose execute reaches the Notion client or its configuration
UsesNotion(request) ==
    \/ /\ request.method = "tools/call"
       /\ Get(request.params, "name") \in
            {Str("get_career_initiatives"), Str("get_achievements"), Str("get_tasks")}
    \/ /\ request.method = "resources/read"
       /\ Get(request.params, "uri") \in
            {Str("notion://initiatives"), Str("notion://achievements/a1"),
             Str("notion://tasks")}

WorldsOf(request) == IF UsesNotion(request) THEN Worlds ELSE {Quiet}

NoRequest == Undef

-----------------------------------------------------------------------------
(* Transports.  A transport object is a number; object 1 is the            *)
(* StdioTransport of the process unless a specification starts otherwise,  *)
(* the others are WebSocketTransports, each                                *)
(* over its own socket.  The ids the transport manager files them under    *)
(* are numbers too, and socket t has socket.id t.                          *)

TransportObjs == 1..MaxTransports
TransportIds == 1..MaxTransports

\* listeners on a transport object, in the order they were attached
ManagerListener(id) == [owner |-> "manager", id |-> id]
ServerListener == [owner |-> "server", id |-> 0]

\* a transport object that has not been constructed
Unmade ==
    [kind |-> "websocket",  \* the class createTransport or the server makes it of
     made |-> FALSE,        \* the constructor has run
     connected |-> FALSE,   \* this.connected
     channel |-> TRUE,      \* socket.connected; for stdio: stdin has not ended
     listeners |-> <<>>,    \* listeners attached to the transport object
     hooked |-> FALSE,      \* the server's own socket 'disconnect' listener is attached
     closes |-> 0,          \* history: 'close' events emitted
     closed |-> FALSE,      \* history: close() was called or the channel ended
     revived |-> FALSE,     \* history: a socket 'connect' event came after that
     messageBuffer |-> <<>>] \* StdioTransport.messageBuffer, a sequence of characters

\* nothing was written to stdin and nothing will be
NoInput ==
    [whole |-> <<>>,    \* history: the characters written to stdin, read or not
     rest |-> <<>>,     \* the characters not read yet
     events |-> <<>>]   \* history: the 'message' and 'error' events of the transport

\* no transport object exists, the manager is empty, nothing is in flight;
\* the first object will be the StdioTransport
NoConnections ==
    /\ tr = [t \in TransportObjs |->
                IF t = 1 THEN [Unmade EXCEPT !.kind = "stdio"] ELSE Unmade]
    /\ transports = <<>>
    /\ pending = {}
    /\ emitted = <<>>
    /\ tx = [t \in TransportObjs |-> <<>>]
    /\ closing = <<>>
    /\ stdin = NoInput

-----------------------------------------------------------------------------
(* The transport layer as a value, so that one operation, with the         *)
(* listeners it triggers synchronously, is a composition of functions.     *)
(* raised records an exception that escaped from an event listener.        *)

Layer ==
    [tr |-> tr, transports |-> transports, pending |-> pending,
     emitted |-> emitted, tx |-> tx, closing |-> closing, stdin |-> stdin,
     raised |-> FALSE]

\* the layer as an operation finds it: what the last one emitted and sent is gone
Fresh ==
    [Layer EXCEPT !.emitted = <<>>, !.tx = [t \in TransportObjs |-> <<>>]]

\* the class of a transport object
kindOf(t) == tr[t].kind

\* MCPTransportManager.getTransport
getTransport(L, id) == IF id \in DOMAIN L.transports THEN L.transports[id] ELSE 0

\* WebSocketTransport.isConnected / StdioTransport.isConnected
isConnected(L, t) ==
    IF kindOf(t) = "websocket"
    THEN L.tr[t].connected /\ L.tr[t].channel
    ELSE L.tr[t].connected

\* MCPTransportManager.getActiveCount
getActiveCount(L) ==
    Cardinality({id \in DOMAIN L.transports : isConnected(L, L.transports[id])})

\* faulty variant: the listeners are detached but the entry is kept
removeTransport_KeepEntry(L, id) ==
    IF id \in DOMAIN L.transports
    THEN [L EXCEPT !.tr[L.transports[id]].listeners = <<>>]
    ELSE L

\* MCPTransportManager.removeTransport
removeTransport(L, id) ==
    IF id \in DOMAIN L.transports
    THEN [L EXCEPT !.tr[L.transports[id]].listeners = <<>>,
                   !.transports = MapDelete(L.transports, id)]
    ELSE L

\* this.emit(name, {transportId: id, ...}) of the transport manager; gone
\* records whether getTransport(id) is undefined while its listeners run
ManagerEmit(L, name, id, payload) ==
    [L EXCEPT !.emitted =
        Append(@, [name |-> name, id |-> id, payload |-> payload,
                   gone |-> getTransport(L, id) = 0])]

\* faulty variant: 'transport:close' is emitted before the transport is removed
Listen_EmitBeforeRemove(L, t, listener, event, payload) ==
    IF listener.owner = "manager"
    THEN CASE event = "message" -> ManagerEmit(L, "message", listener.id, payload)
           [] event = "error" -> ManagerEmit(L, "error", listener.id, payload)
           [] event = "close" ->
                removeTransport(ManagerEmit(L, "transport:close", listener.id, Undef),
                                listener.id)
           [] OTHER -> L
    ELSE IF event = "message"
    THEN [L EXCEPT !.pending = @ \cup {[t |-> t, request |-> payload]}]
    ELSE L

\* one listener of a transport object reacting to an event of the transport
Listen(L, t, listener, event, payload) ==
    IF listener.owner = "manager"
    THEN CASE event = "message" -> ManagerEmit(L, "message", listener.id, payload)
           [] event = "error" -> ManagerEmit(L, "error", listener.id, payload)
           [] event = "close" ->
                ManagerEmit(removeTransport(L, listener.id), "transport:close",
                            listener.id, Undef)
           [] OTHER -> L
    ELSE IF event = "message"
    THEN [L EXCEPT !.pending = @ \cup {[t |-> t, request |-> payload]}]
    ELSE L

RECURSIVE Deliver(_, _, _, _, _, _)
Deliver(L, t, snapshot, i, event, payload) ==
    IF i > Len(snapshot)
    THEN L
    ELSE Deliver(Listen(L, t, snapshot[i], event, payload), t, snapshot, i + 1,
                 event, payload)

\* the listeners of a transport object that react to an event
ListensTo(listener, event) ==
    \/ listener.owner = "manager" /\ event \in {"message", "error", "close"}
    \/ listener.owner = "server" /\ event = "message"

\* transport.emit(event, payload): the listeners attached at this moment run
\* in the order they were attached; an 'error' event nobody listens to is
\* thrown by EventEmitter
Emit(L, t, event, payload) ==
    LET snapshot == L.tr[t].listeners
    IN IF /\ event = "error"
          /\ \A i \in 1..Len(snapshot) : ~ListensTo(snapshot[i], "error")
       THEN [L EXCEPT !.raised = TRUE]
       ELSE Deliver(L, t, snapshot, 1, event, payload)

\* what an operation of the transport layer leaves: the layer, and the error
\* it threw if it threw
Done(L) == [L |-> L, threw |-> FALSE, error |-> Undef]
Failed(L, error) == [L |-> L, threw |-> TRUE, error |-> error]

\* the constructors: setupEventHandlers, then this.connected = true
NewTransport(object) == [object EXCEPT !.made = TRUE, !.connected = TRUE]

\* faulty variant: the listeners are attached before the id is looked up
addTransport_ListenersFirst(L, id, t) ==
    IF id \in DOMAIN L.transports
    THEN Failed([L EXCEPT !.tr[t].listeners = Append(@, ManagerListener(id))],
                MCPError(INTERNAL_ERROR,
                    <<"Transport with id '", id, "' already exists">>, Undef))
    ELSE Done([L EXCEPT !.tr[t].listeners = Append(@, ManagerListener(id)),
                        !.transports = MapSet(L.transports, id, t)])

\* MCPTransportManager.addTransport
addTransport(L, id, t) ==
    IF id \in DOMAIN L.transports
    THEN Failed(L, MCPError(INTERNAL_ERROR,
                    <<"Transport with id '", id, "' already exists">>, Undef))
    ELSE Done([L EXCEPT !.tr[t].listeners = Append(@, ManagerListener(id)),
                        !.transports = MapSet(L.transports, id, t)])

\* the socket's 'disconnect' event: the listener of WebSocketTransport
\* (connected = false, emit 'disconnect', emit 'close'), then the listener the
\* server attached to the socket, which calls removeTransport(socket.id)
socketDisconnected(L, t) ==
    LET off == [L EXCEPT !.tr[t].channel = FALSE, !.tr[t].connected = FALSE,
                         !.tr[t].closed = TRUE, !.tr[t].closes = @ + 1]
        told == Emit(Emit(off, t, "disconnect", Undef), t, "close", Undef)
    IN IF told.tr[t].hooked THEN removeTransport(told, t) ELSE told

\* socket.disconnect() of a server-side socket: the 'disconnect' listeners
\* run before it returns, and only if the socket was connected
socketDisconnect(L, t) == IF L.tr[t].channel THEN socketDisconnected(L, t) ELSE L

\* faulty variant: close() tears the socket down whatever the flag says
webSocketClose_Unguarded(L, t) ==
    [socketDisconnected(L, t) EXCEPT !.tr[t].connected = FALSE, !.tr[t].closed = TRUE]

\* WebSocketTransport.close
webSocketClose(L, t) ==
    IF L.tr[t].connected
    THEN [socketDisconnect(L, t) EXCEPT !.tr[t].connected = FALSE,
                                        !.tr[t].closed = TRUE]
    ELSE [L EXCEPT !.tr[t].closed = TRUE]

\* StdioTransport.close
stdioClose(L, t) == [L EXCEPT !.tr[t].connected = FALSE, !.tr[t].closed = TRUE]

\* transport.close()
close(L, t) == IF kindOf(t) = "websocket" THEN webSocketClose(L, t) ELSE stdioClose(L, t)

\* transport.close() as closeAll calls it.  rejects: the teardown of the
\* channel throws (socket.disconnect() before the flag is cleared,
\* process.stdin.pause() after it), so the promise of close() rejects
closeSettled(L, t, rejects) ==
    IF rejects /\ L.tr[t].connected
    THEN IF kindOf(t) = "websocket"
         THEN L
         ELSE [L EXCEPT !.tr[t].connected = FALSE, !.tr[t].closed = TRUE]
    ELSE close(L, t)

\* faulty variant: the closes are awaited one by one and the first rejection
\* ends the loop
RECURSIVE closeEach_StopAtRejection(_, _, _, _)
closeEach_StopAtRejection(L, held, faulty, id) ==
    IF id > MaxTransports
    THEN L
    ELSE IF id \notin DOMAIN held
    THEN closeEach_StopAtRejection(L, held, faulty, id + 1)
    ELSE IF held[id] \in faulty /\ L.tr[held[id]].connected
    THEN L
    ELSE closeEach_StopAtRejection(closeSettled(L, held[id], FALSE), held, faulty,
                                   id + 1)

\* Array.from(this.transports.values()).map(transport => transport.close()):
\* close() is called on every transport of the copy, one after the other,
\* also on one that an earlier close has taken out of the map
RECURSIVE closeEach(_, _, _, _)
closeEach(L, held, faulty, id) ==
    IF id > MaxTransports
    THEN L
    ELSE closeEach(IF id \in DOMAIN held
                   THEN closeSettled(L, held[id], held[id] \in faulty)
                   ELSE L,
                   held, faulty, id + 1)

\* MCPTransportManager.closeAll up to its await: the closes have been started
\* (and, having no await of their own, have settled)
closeAllStarted(L, faulty) ==
    [closeEach(L, L.transports, faulty, 1) EXCEPT
        !.closing = Append(@,
            [called |-> {L.transports[id] : id \in DOMAIN L.transports},
             rejected |-> {t \in faulty :
                            /\ \E id \in DOMAIN L.transports : L.transports[id] = t
                            /\ L.tr[t].connected}])]

\* MCPTransportManager.closeAll after its await: this.transports.clear()
closeAllSettled(L) ==
    [L EXCEPT !.transports = <<>>, !.closing = Tail(@)]

\* process.stdin 'end': connected = false, emit 'close'
stdinEnded(L, t) ==
    Emit([L EXCEPT !.tr[t].channel = FALSE, !.tr[t].connected = FALSE,
                   !.tr[t].closed = TRUE, !.tr[t].closes = @ + 1],
         t, "close", Undef)

\* the socket's 'connect' event: connected = true, emit 'connect'
socketConnected(L, t) ==
    Emit([L EXCEPT !.tr[t].connected = TRUE,
                   !.tr[t].revived = @ \/ L.tr[t].closed],
         t, "connect", Undef)

NotConnectedMessage(t) ==
    IF kindOf(t) = "websocket"
    THEN <<"WebSocket not connected">>
    ELSE <<"Stdio transport not connected">>

SendFailedMessage(t) ==
    IF kindOf(t) = "websocket"
    THEN <<"Failed to send WebSocket message">>
    ELSE <<"Failed to send stdio message">>

\* faulty variant: send does not look at the connected flag
send_Unchecked(L, t, message, fault) ==
    IF fault
    THEN Failed(L, MCPError(TRANSPORT_ERROR, SendFailedMessage(t),
                    Obj([originalError |-> Str("Error")])))
    ELSE Done([L EXCEPT !.tx[t] = Append(@, message)])

\* WebSocketTransport.send / StdioTransport.send.  fault: socket.emit,
\* JSON.stringify or stdout.write throws.  A socket that is no longer
\* connected drops what is emitted on it.
send(L, t, message, fault) ==
    IF ~L.tr[t].connected
    THEN Failed(L, MCPError(TRANSPORT_ERROR, NotConnectedMessage(t), Undef))
    ELSE IF fault
    THEN Failed(L, MCPError(TRANSPORT_ERROR, SendFailedMessage(t),
                    Obj([originalError |-> Str("Error")])))
    ELSE IF L.tr[t].channel \/ kindOf(t) = "stdio"
    THEN Done([L EXCEPT !.tx[t] = Append(@, message)])
    ELSE Done(L)

\* one callback of broadcast: the send is skipped on a transport that is not
\* connected, and an error of send is caught and logged
broadcastTo(L, t, message, faulty) ==
    IF isConnected(L, t) THEN send(L, t, message, t \in faulty).L ELSE L

\* faulty variant: the sends are awaited one after the other and the first
\* transport that is disconnected or fails ends the broadcast
RECURSIVE broadcast_StopAtFailure(_, _, _, _)
broadcast_StopAtFailure(L, message, faulty, id) ==
    IF id > MaxTransports
    THEN L
    ELSE IF id \notin DOMAIN L.transports
    THEN broadcast_StopAtFailure(L, message, faulty, id + 1)
    ELSE IF ~isConnected(L, L.transports[id]) \/ L.transports[id] \in faulty
    THEN L
    ELSE broadcast_StopAtFailure(broadcastTo(L, L.transports[id], message, faulty),
                                 message, faulty, id + 1)

\* MCPTransportManager.broadcast: the callbacks run one after the other over
\* the entries of the map, each up to the end of its send; faulty: the
\* transports whose channel throws on write
RECURSIVE broadcast(_, _, _, _)
broadcast(L, message, faulty, id) ==
    IF id > MaxTransports
    THEN L
    ELSE broadcast(IF id \in DOMAIN L.transports
                   THEN broadcastTo(L, L.transports[id], message, faulty)
                   ELSE L,
                   message, faulty, id + 1)

\* WebSocketTransport.handleMessage: the envelope checks before 'message' is emitted
handleMessage(data) ==
    IF "method" \notin DOMAIN data
    THEN Thrown(MCPError(INVALID_REQUEST, <<"Message must be a valid JSON object">>, Undef))
    ELSE IF data.jsonrpc /= Str("2.0")
    THEN Thrown(MCPError(INVALID_REQUEST, <<"Invalid JSON-RPC version">>, Undef))
    ELSE IF data.method = ""
    THEN Thrown(MCPError(INVALID_REQUEST, <<"Missing or invalid method field">>, Undef))
    ELSE Returned(data)

\* the socket's 'message' listener of WebSocketTransport: whatever
\* handleMessage throws is reported as a ParseError on the 'error' event
socketMessage(L, t, data) ==
    IF handleMessage(data).thrown
    THEN Emit(L, t, "error",
              MCPError(PARSE_ERROR, <<"Failed to parse incoming message">>, Undef))
    ELSE Emit(L, t, "message", data)

\* faulty variant: a message without an id is handled but not answered
reply_SkipNotifications(L, entry, response, fault) ==
    IF entry.request.id = Undef
    THEN Done(L)
    ELSE send(L, entry.t, response, fault)

\* faulty variant: the response is sent a second time
reply_Twice(L, entry, response, fault) ==
    LET once == send(L, entry.t, response, fault)
    IN IF once.threw THEN once ELSE send(once.L, entry.t, response, fault)

\* the server's 'message' listener once handleRequest has resolved:
\* await transport.send(response), for every message
reply(L, entry, response, fault) == send(L, entry.t, response, fault)

-----------------------------------------------------------------------------
(* The line codec of StdioTransport.  Text is a sequence of characters.    *)
(* The text of a JSON object is "{", one character that stands for its     *)
(* members, and "}".                                                       *)

Newline == "\n"
Blank == " "

\* the objects the texts "{a}", "{b}", ... denote
Payloads ==
    [a |-> Request(Str("2.0"), Num("1"), "tools/list", Undef),
     b |-> Request(Str("2.0"), Undef, "initialized", Undef),
     v |-> Request(Str("1.0"), Num("1"), "tools/list", Undef),
     m |-> Request(Str("2.0"), Num("1"), "", Undef)]

\* JSON.parse
JSONparse(text) ==
    IF Len(text) = 3 /\ text[1] = "{" /\ text[3] = "}" /\ text[2] \in DOMAIN Payloads
    THEN Returned(Payloads[text[2]])
    ELSE IF text = <<"5">>
    THEN Returned(Num("5"))
    ELSE Thrown(PlainError(<<"SyntaxError">>))

\* String.prototype.trim
RECURSIVE trimStart(_)
trimStart(text) ==
    IF text /= <<>> /\ Head(text) = Blank THEN trimStart(Tail(text)) ELSE text

RECURSIVE trimEnd(_)
trimEnd(text) ==
    IF text /= <<>> /\ text[Len(text)] = Blank
    THEN trimEnd(SubSeq(text, 1, Len(text) - 1))
    ELSE text

trim(text) == trimEnd(trimStart(text))

\* text.split('\n'), given the piece that runs up to text
RECURSIVE split(_, _)
split(text, piece) ==
    IF text = <<>>
    THEN <<piece>>
    ELSE IF Head(text) = Newline
    THEN <<piece>> \o split(Tail(text), <<>>)
    ELSE split(Tail(text), Append(piece, Head(text)))

\* StdioTransport.parseMessage up to its emit: the message, or the error thrown
parseMessage(line) ==
    LET parsed == JSONparse(line)
    IN IF parsed.thrown
       THEN Thrown(MCPError(PARSE_ERROR, <<"Invalid JSON message: ", "SyntaxError">>, Undef))
       ELSE IF "method" \notin DOMAIN parsed.value
       THEN Thrown(MCPError(INVALID_REQUEST, <<"Invalid JSON-RPC version">>, Undef))
       ELSE IF parsed.value.jsonrpc /= Str("2.0")
       THEN Thrown(MCPError(INVALID_REQUEST, <<"Invalid JSON-RPC version">>, Undef))
       ELSE IF parsed.value.method = ""
       THEN Thrown(MCPError(INVALID_REQUEST, <<"Missing or invalid method field">>, Undef))
       ELSE Returned(parsed.value)

\* an event of the stdio transport, as its listeners get it and as the
\* history keeps it
StdioEmit(L, t, event, payload) ==
    Emit([L EXCEPT !.stdin.events = Append(@, [name |-> event, payload |-> payload])],
         t, event, payload)

\* the catch of handleStdinData
StdinFailed(L, t) ==
    StdioEmit(L, t, "error", MCPError(PARSE_ERROR, <<"Failed to parse stdin data">>, Undef))

\* the loop of handleStdinData: the first line that parseMessage throws on
\* ends it in the catch
RECURSIVE parseLines(_, _, _, _)
parseLines(L, t, lines, i) ==
    IF i > Len(lines)
    THEN L
    ELSE IF trim(lines[i]) = <<>>
    THEN parseLines(L, t, lines, i + 1)
    ELSE LET parsed == parseMessage(trim(lines[i]))
         IN IF parsed.thrown
            THEN StdinFailed(L, t)
            ELSE parseLines(StdioEmit(L, t, "message", parsed.value), t, lines, i + 1)

\* faulty variant: what follows the last newline of a read is thrown away
handleStdinData_DropFragment(L, t, chunk) ==
    LET pieces == split(L.tr[t].messageBuffer \o chunk, <<>>)
    IN parseLines([L EXCEPT !.tr[t].messageBuffer = <<>>], t,
                  SubSeq(pieces, 1, Len(pieces) - 1), 1)

\* StdioTransport.handleStdinData with the chunk process.stdin.read() gave
handleStdinData(L, t, chunk) ==
    LET pieces == split(L.tr[t].messageBuffer \o chunk, <<>>)
    IN parseLines([L EXCEPT !.tr[t].messageBuffer = pieces[Len(pieces)]], t,
                  SubSeq(pieces, 1, Len(pieces) - 1), 1)

-----------------------------------------------------------------------------
(* The backend store: the projects table of the SQLite database, the       *)
(* validation helpers and ProjectCrudRepository.  A project id is a number *)
(* and a column value a string.                                            *)

MaxRows == 2

\* SQL NULL
SqlNull == "NULL"

\* the columns of projects that an INSERT or UPDATE of the repository sets
ProjectColumns ==
    {"title", "company", "role", "start_date", "end_date", "status", "description",
     "impact_metric", "github_url", "live_url", "updated_at"}

\* the connection that importing the database module opens, on a database
\* whose schema exists and whose tables are empty: lastID and
\* lastAchievementID are the last values of the AUTOINCREMENT keys, and
\* foreignKeys is PRAGMA foreign_keys, which SQLite has OFF on a new
\* connection
EmptyDatabase ==
    [projects |-> <<>>, lastID |-> 0, achievements |-> <<>>, lastAchievementID |-> 0,
     foreignKeys |-> FALSE]

\* input.field !== undefined
Given(input, field) == field \in DOMAIN input

\* validateRequired: TRUE when it throws
Missing(input, field) ==
    \/ ~Given(input, field)
    \/ input[field] \in {"", "  "}

\* validateRequired of a numeric id: TRUE when it throws
MissingId(input) ==
    \/ ~Given(input, "id")
    \/ input["id"] = 0

\* validateDateFormat
ValidDates == {"2024-01-15", "2025-06-30"}
validateDateFormat(date) == date \in ValidDates

\* validateURL
ValidURLs == {"https://github.com/u/p", "https://p.example"}
validateURL(url) == url \in ValidURLs

\* value || null
OrNull(value) == IF value = "" THEN SqlNull ELSE value

\* the CHECK constraint of projects.status
StatusAllowed(status) == status \in {"ongoing", "completed", "planned"}

\* the responses of the CRUD methods
CrudSuccess(data, error) == [success |-> TRUE, data |-> data, error |-> error]
CrudFailure(message) == [success |-> FALSE, data |-> Undef, error |-> message]

\* faulty variant: an update that names no field is let through
updateViolation_AllowEmpty(input) ==
    IF MissingId(input) THEN <<"Missing required field: ", "Project ID">> ELSE <<>>

\* the first check of ProjectCrudRepository.update that throws, as the
\* message of its ValidationError; <<>> when none does
updateViolation(input) ==
    CASE MissingId(input) -> <<"Missing required field: ", "Project ID">>
      [] Given(input, "title") /\ Missing(input, "title") ->
            <<"Missing required field: ", "Title">>
      [] Given(input, "company") /\ Missing(input, "company") ->
            <<"Missing required field: ", "Company">>
      [] Given(input, "role") /\ Missing(input, "role") ->
            <<"Missing required field: ", "Role">>
      [] Given(input, "start_date") /\ ~validateDateFormat(input["start_date"]) ->
            <<"Start Date must be in YYYY-MM-DD format">>
      [] /\ Given(input, "end_date")
         /\ input["end_date"] /= ""
         /\ ~validateDateFormat(input["end_date"]) ->
            <<"End Date must be in YYYY-MM-DD format">>
      [] /\ Given(input, "github_url")
         /\ input["github_url"] /= ""
         /\ ~validateURL(input["github_url"]) ->
            <<"GitHub URL is not valid">>
      [] /\ Given(input, "live_url")
         /\ input["live_url"] /= ""
         /\ ~validateURL(input["live_url"]) ->
            <<"Live URL is not valid">>
      [] DOMAIN input \subseteq {"id"} -> <<"No fields provided to update">>
      [] OTHER -> <<>>

\* the value the UPDATE statement of update binds to a column
updateParam(input, column) ==
    IF column \in {"end_date", "description", "impact_metric", "github_url", "live_url"}
    THEN OrNull(input[column])
    ELSE input[column]

\* DatabaseQuery.run of UPDATE projects SET ..., updated_at =
\* CURRENT_TIMESTAMP WHERE id = ?: the store after it, whether the query
\* succeeded, and the number of rows it changed.  The CHECK constraint is
\* evaluated for the rows the statement reaches.
runUpdate(store, input) ==
    IF input["id"] \notin DOMAIN store.projects
    THEN [store |-> store, success |-> TRUE, changes |-> 0]
    ELSE IF Given(input, "status") /\ ~StatusAllowed(input["status"])
    THEN [store |-> store, success |-> FALSE, changes |-> 0]
    ELSE [store |-> [store EXCEPT !.projects[input["id"]] =
                        [column \in ProjectColumns |->
                            IF column = "updated_at" THEN "later"
                            ELSE IF Given(input, column) THEN updateParam(input, column)
                            ELSE @[column]]],
          success |-> TRUE,
          changes |-> 1]

\* ProjectCrudRepository.update: the store after it and the response
ProjectUpdate(store, input) ==
    IF updateViolation(input) /= <<>>
    THEN [store |-> store, response |-> CrudFailure(updateViolation(input))]
    ELSE LET result == runUpdate(store, input)
         IN IF ~result.success
            THEN [store |-> result.store,
                  response |-> CrudFailure(<<"Failed to update project">>)]
            ELSE IF result.changes > 0
            THEN [store |-> result.store,
                  response |-> CrudSuccess(Undef,
                                  <<"No project found with ID ", input["id"]>>)]
            ELSE [store |-> result.store, response |-> CrudSuccess(Bool("true"), Undef)]

\* the first check of ProjectCrudRepository.create that throws, as the
\* message of its ValidationError; <<>> when none does
createViolation(input) ==
    CASE Missing(input, "title") -> <<"Missing required field: ", "Title">>
      [] Missing(input, "company") -> <<"Missing required field: ", "Company">>
      [] Missing(input, "role") -> <<"Missing required field: ", "Role">>
      [] Missing(input, "start_date") -> <<"Missing required field: ", "Start Date">>
      [] ~validateDateFormat(input["start_date"]) ->
            <<"Start Date must be in YYYY-MM-DD format">>
      [] /\ Given(input, "end_date")
         /\ input["end_date"] /= ""
         /\ ~validateDateFormat(input["end_date"]) ->
            <<"End Date must be in YYYY-MM-DD format">>
      [] /\ Given(input, "github_url")
         /\ input["github_url"] /= ""
         /\ ~validateURL(input["github_url"]) ->
            <<"GitHub URL is not valid">>
      [] OTHER -> <<>>

\* the value the INSERT statement of create binds to a column
createParam(input, column) ==
    IF column \in {"title", "company", "role", "start_date"}
    THEN input[column]
    ELSE IF column = "status"
    THEN IF Given(input, column) /\ input[column] /= "" THEN input[column] ELSE "completed"
    ELSE IF Given(input, column) THEN OrNull(input[column]) ELSE SqlNull

\* DatabaseQuery.run of INSERT INTO projects (...): the store after it,
\* whether the query succeeded, and the id of the new row
runInsert(store, input) ==
    IF ~StatusAllowed(createParam(input, "status"))
    THEN [store |-> store, success |-> FALSE, id |-> 0]
    ELSE LET id == store.lastID + 1
             row == [column \in ProjectColumns |->
                        IF column = "updated_at" THEN "created"
                        ELSE createParam(input, column)]
         IN [store |-> [store EXCEPT
                          !.projects = [p \in DOMAIN store.projects \cup {id} |->
                                           IF p = id THEN row ELSE store.projects[p]],
                          !.lastID = id],
             success |-> TRUE,
             id |-> id]

\* ProjectCrudRepository.create: the store after it and the response
ProjectCreate(store, input) ==
    IF createViolation(input) /= <<>>
    THEN [store |-> store, response |-> CrudFailure(createViolation(input))]
    ELSE LET result == runInsert(store, input)
         IN IF result.success /\ result.id /= 0
            THEN [store |-> result.store, response |-> CrudSuccess(Num(result.id), Undef)]
            ELSE [store |-> result.store,
                  response |-> CrudFailure(<<"Failed to create project">>)]

\* the checks of ProjectCrudRepository.delete that throw, as the message of
\* the ValidationError; <<>> when none does
deleteViolation(projectId) ==
    CASE projectId = 0 -> <<"Missing required field: ", "Project ID">>
      [] projectId < 0 -> <<"Project ID must be a positive number">>
      [] OTHER -> <<>>

\* DatabaseQuery.run of DELETE FROM projects WHERE id = ?: the row goes, and
\* ON DELETE CASCADE takes the achievements of the project with it when the
\* connection enforces foreign keys
runDelete(store, projectId) ==
    [store |->
        [store EXCEPT
            !.projects = [p \in DOMAIN store.projects \ {projectId} |-> store.projects[p]],
            !.achievements =
                IF store.foreignKeys
                THEN [a \in {b \in DOMAIN store.achievements :
                                store.achievements[b].project_id /= projectId} |->
                        store.achievements[a]]
                ELSE store.achievements],
     success |-> TRUE,
     changes |-> IF projectId \in DOMAIN store.projects THEN 1 ELSE 0]

\* faulty variant: the DELETE runs without the existence check and its
\* change count is not looked at
ProjectDelete_Unverified(store, projectId) ==
    IF deleteViolation(projectId) /= <<>>
    THEN [store |-> store, response |-> CrudFailure(deleteViolation(projectId))]
    ELSE [store |-> runDelete(store, projectId).store,
          response |-> CrudSuccess(Bool("true"), Undef)]

\* ProjectCrudRepository.delete: the store after it and the response
ProjectDelete(store, projectId) ==
    IF deleteViolation(projectId) /= <<>>
    THEN [store |-> store, response |-> CrudFailure(deleteViolation(projectId))]
    ELSE IF projectId \notin DOMAIN store.projects
    THEN [store |-> store,
          response |-> CrudFailure(<<"No project found with ID ", projectId>>)]
    ELSE LET result == runDelete(store, projectId)
         IN IF result.success /\ result.changes > 0
            THEN [store |-> result.store, response |-> CrudSuccess(Bool("true"), Undef)]
            ELSE [store |-> result.store,
                  response |-> CrudFailure(<<"Failed to delete project">>)]

\* the checks of AchievementCrudRepository.create that throw
achievementViolation(store, input) ==
    CASE MissingId(input) -> <<"Missing required field: ", "Project ID">>
      [] Missing(input, "title") -> <<"Missing required field: ", "Title">>
      [] Missing(input, "description") -> <<"Missing required field: ", "Description">>
      [] Missing(input, "achievement_type") ->
            <<"Missing required field: ", "Achievement Type">>
      [] input["id"] \notin DOMAIN store.projects ->
            <<"Project with ID ", input["id"], " does not exist">>
      [] OTHER -> <<>>

\* AchievementCrudRepository.create: the store after it and the response; the
\* project id of the input is its field "id"
AchievementCreate(store, input) ==
    IF achievementViolation(store, input) /= <<>>
    THEN [store |-> store, response |-> CrudFailure(achievementViolation(store, input))]
    ELSE LET id == store.lastAchievementID + 1
             row == [project_id |-> input["id"],
                     title |-> input["title"],
                     description |-> input["description"],
                     achievement_type |-> input["achievement_type"]]
         IN [store |-> [store EXCEPT
                          !.achievements =
                              [a \in DOMAIN store.achievements \cup {id} |->
                                  IF a = id THEN row ELSE store.achievements[a]],
                          !.lastAchievementID = id],
             response |-> CrudSuccess(Num(id), Undef)]

-----------------------------------------------------------------------------
(* Handshake history.  The code keeps no handshake field: the variable     *)
(* records what the responses have told the client so far.                 *)

\* the handshake as the client sees it after a response
Advance(state, request, response) ==
    IF response.result = Undef THEN state
    ELSE IF request.method = "initialize" /\ state = "uninitialized"
    THEN "initializing"
    ELSE IF request.method = "initialized" /\ state = "initializing"
    THEN "initialized"
    ELSE state

-----------------------------------------------------------------------------
(* Actions *)

\* the server after its constructor: registerHandlers has run, nothing handled
Init ==
    /\ handlers = registerHandlers(EmptyMap, 1)
    /\ nodeEnv \in NodeEnvs
    /\ handshake = "uninitialized"
    /\ op = "idle"
    /\ req = NoRequest
    /\ world = Quiet
    /\ resp = Undef
    /\ stages = <<>>
    /\ threw = FALSE
    /\ arg = Undef
    /\ handledBy = NoHandler
    /\ how = "none"
    /\ prev = handlers
    /\ db = EmptyDatabase
    /\ NoConnections

\* handlerRegistry.handleRequest(request), run to completion
HandleRequest(request, downstream) ==
    /\ op = "idle"
    /\ \E done \in {handleRequest(handlers, request, downstream, nodeEnv)} :
       /\ op' = "handleRequest"
       /\ req' = request
       /\ world' = downstream
       /\ resp' = done.response
       /\ stages' = done.ran
       /\ threw' = FALSE
       /\ arg' = Undef
       /\ handledBy' = done.by
       /\ how' = done.exit
       /\ prev' = handlers
       /\ handshake' = Advance(handshake, request, done.response)
       /\ UNCHANGED <<handlers, nodeEnv, tr, transports,
                 pending, emitted, tx, closing, stdin, db>>

Serve ==
    /\ op = "idle"
    /\ \E request \in Requests : \E downstream \in WorldsOf(request) :
            HandleRequest(request, downstream)

\* the call returns to its caller, which takes the value: nothing is in progress
Return ==
    /\ op /= "idle"
    /\ op' = "idle"
    /\ req' = NoRequest
    /\ world' = Quiet
    /\ resp' = Undef
    /\ stages' = <<>>
    /\ threw' = FALSE
    /\ arg' = Undef
    /\ handledBy' = NoHandler
    /\ how' = "none"
    /\ prev' = handlers
    /\ UNCHANGED <<handlers, nodeEnv, handshake, tr, transports,
                 pending, emitted, tx, closing, stdin, db>>

Next ==
    \/ Serve
    \/ Return

Spec == Init /\ [][Next]_vars

-----------------------------------------------------------------------------
(* The registry API on its own: register, unregister, clear and dispatch on *)
(* a registry that starts empty.                                            *)

HandlerObjects == {Handler(m, i) : m \in HandlerMethods, i \in 1..MaxInstances}

\* one request per method, enough to see which handler a method dispatches to
Probes ==
    {Request(Str("2.0"), Num("1"), m, Undef) : m \in HandlerMethods \cup UnboundMethods}

InitRegistry ==
    /\ handlers = EmptyMap
    /\ nodeEnv \in NodeEnvs
    /\ handshake = "uninitialized"
    /\ op = "idle"
    /\ req = NoRequest
    /\ world = Quiet
    /\ resp = Undef
    /\ stages = <<>>
    /\ threw = FALSE
    /\ arg = Undef
    /\ handledBy = NoHandler
    /\ how = "none"
    /\ prev = handlers
    /\ db = EmptyDatabase
    /\ NoConnections

\* handlerRegistry.register(handler)
Register(handler) ==
    /\ op = "idle"
    /\ \E done \in {register(handlers, handler)} :
       /\ \/ hasHandler(handlers, handler.method)
          \/ Cardinality(DOMAIN handlers) < MaxBound
       /\ op' = "register"
       /\ arg' = handler
       /\ handlers' = done.map
       /\ threw' = done.threw
       /\ resp' = Undef
       /\ req' = NoRequest
       /\ world' = Quiet
       /\ stages' = <<>>
       /\ handledBy' = NoHandler
       /\ how' = "none"
       /\ prev' = handlers
       /\ UNCHANGED <<nodeEnv, handshake, tr, transports,
                 pending, emitted, tx, closing, stdin, db>>

\* handlerRegistry.unregister(method)
Unregister(method) ==
    /\ op = "idle"
    /\ op' = "unregister"
    /\ arg' = Str(method)
    /\ handlers' = MapDelete(handlers, method)
    /\ resp' = Bool(IF hasHandler(handlers, method) THEN "true" ELSE "false")
    /\ threw' = FALSE
    /\ req' = NoRequest
    /\ world' = Quiet
    /\ stages' = <<>>
    /\ handledBy' = NoHandler
    /\ how' = "none"
    /\ prev' = handlers
    /\ UNCHANGED <<nodeEnv, handshake, tr, transports,
                 pending, emitted, tx, closing, stdin, db>>

\* handlerRegistry.clear()
Clear ==
    /\ op = "idle"
    /\ op' = "clear"
    /\ arg' = Undef
    /\ handlers' = EmptyMap
    /\ resp' = Undef
    /\ threw' = FALSE
    /\ req' = NoRequest
    /\ world' = Quiet
    /\ stages' = <<>>
    /\ handledBy' = NoHandler
    /\ how' = "none"
    /\ prev' = handlers
    /\ UNCHANGED <<nodeEnv, handshake, tr, transports,
                 pending, emitted, tx, closing, stdin, db>>

Dispatch ==
    /\ op = "idle"
    /\ \E request \in Probes : HandleRequest(request, Quiet)

NextRegistry ==
    \/ \E handler \in HandlerObjects : Register(handler)
    \/ \E method \in HandlerMethods \cup UnboundMethods : Unregister(method)
    \/ Clear
    \/ Dispatch
    \/ Return

SpecRegistry == InitRegistry /\ [][NextRegistry]_vars

-----------------------------------------------------------------------------
(* The transports and the transport manager under the server: sockets      *)
(* connect, send messages and disconnect, stdin ends, and the manager and  *)
(* the transports are called through their public methods.  Socket and     *)
(* stdin events are tasks of the event loop: none runs while a closeAll()  *)
(* is between its await and its continuation, which are microtasks.        *)

\* what arrives on a socket as one 'message' event
Inbound ==
    {Str("text"),
     Request(Str("2.0"), Num("1"), "tools/list", Undef),
     Request(Str("2.0"), Undef, "initialized", Undef),
     Request(Str("1.0"), Num("1"), "tools/list", Undef),
     Request(Str("2.0"), Num("1"), "", Undef)}

\* what the server sends of its own accord
Outbound ==
    {[jsonrpc |-> "2.0", method |-> "notifications/tools/list_changed"]}

InitTransport ==
    /\ handlers = registerHandlers(EmptyMap, 1)
    /\ nodeEnv = "production"
    /\ handshake = "uninitialized"
    /\ op = "idle"
    /\ req = NoRequest
    /\ world = Quiet
    /\ resp = Undef
    /\ stages = <<>>
    /\ threw = FALSE
    /\ arg = Undef
    /\ handledBy = NoHandler
    /\ how = "none"
    /\ prev = handlers
    /\ db = EmptyDatabase
    /\ NoConnections

\* an operation of the transport layer has run: the call record and the layer
Finish(name, argument, done) ==
    /\ op' = name
    /\ arg' = argument
    /\ threw' = (done.threw \/ done.L.raised)
    /\ resp' = done.error
    /\ tr' = done.L.tr
    /\ transports' = done.L.transports
    /\ pending' = done.L.pending
    /\ emitted' = done.L.emitted
    /\ tx' = done.L.tx
    /\ closing' = done.L.closing
    /\ stdin' = done.L.stdin
    /\ UNCHANGED <<handlers, nodeEnv, handshake, req, world, stages, handledBy,
                   how, prev, db>>

\* the 'connection' listener of setupSocketIO: new WebSocketTransport(socket),
\* addTransport(socket.id, transport), transport.on('message', ...),
\* socket.on('disconnect', ...); a throw of addTransport ends it there
Connection(t) ==
    /\ op = "idle"
    /\ closing = <<>>
    /\ kindOf(t) = "websocket"
    /\ ~tr[t].made
    /\ \E added \in {addTransport([Fresh EXCEPT !.tr[t] = NewTransport(tr[t])], t, t)} :
         Finish("connection", [t |-> t, id |-> t],
                IF added.threw
                THEN added
                ELSE Done([added.L EXCEPT
                            !.tr[t].listeners = Append(@, ServerListener),
                            !.tr[t].hooked = TRUE]))

\* MCPTransportFactory.createTransport
CreateTransport(t) ==
    /\ op = "idle"
    /\ ~tr[t].made
    /\ Finish("createTransport", [t |-> t],
              Done([Fresh EXCEPT !.tr[t] = NewTransport(tr[t])]))

\* transportManager.addTransport(id, transport), with a transport that the
\* manager does not hold and that carries no listeners (closeAll leaves the
\* listeners of the transports it drops: such a transport is not added again)
AddTransport(id, t) ==
    /\ op = "idle"
    /\ tr[t].made
    /\ \A held \in DOMAIN transports : transports[held] /= t
    /\ tr[t].listeners = <<>>
    /\ Finish("addTransport", [t |-> t, id |-> id], addTransport(Fresh, id, t))

\* transportManager.removeTransport(id)
RemoveTransport(id) ==
    /\ op = "idle"
    /\ Finish("removeTransport", [id |-> id], Done(removeTransport(Fresh, id)))

\* transport.send(message)
Send(t, message, fault) ==
    /\ op = "idle"
    /\ tr[t].made
    /\ Finish("send", [t |-> t, message |-> message, fault |-> fault],
              send(Fresh, t, message, fault))

\* transport.close(), also what SIGINT and SIGTERM call on the stdio transport
Close(t) ==
    /\ op = "idle"
    /\ tr[t].made
    /\ Finish("close", [t |-> t], Done(close(Fresh, t)))

\* the client goes away: the socket emits 'disconnect'
SocketDisconnect(t) ==
    /\ op = "idle"
    /\ closing = <<>>
    /\ kindOf(t) = "websocket"
    /\ tr[t].made
    /\ tr[t].channel
    /\ Finish("disconnect", [t |-> t], Done(socketDisconnected(Fresh, t)))

\* the socket emits 'connect'
SocketConnect(t) ==
    /\ op = "idle"
    /\ closing = <<>>
    /\ kindOf(t) = "websocket"
    /\ tr[t].made
    /\ Finish("connect", [t |-> t], Done(socketConnected(Fresh, t)))

\* process.stdin emits 'end'
StdinEnd(t) ==
    /\ op = "idle"
    /\ closing = <<>>
    /\ kindOf(t) = "stdio"
    /\ tr[t].made
    /\ tr[t].channel
    /\ stdin.rest = <<>>
    /\ Finish("end", [t |-> t], Done(stdinEnded(Fresh, t)))

\* the socket emits 'message' with what the client sent
SocketMessage(t, data) ==
    /\ op = "idle"
    /\ closing = <<>>
    /\ kindOf(t) = "websocket"
    /\ tr[t].made
    /\ tr[t].channel
    /\ Cardinality(pending) < MaxPending
    /\ Finish("message", [t |-> t, data |-> data], Done(socketMessage(Fresh, t, data)))

\* faulty variant: the message handler has no catch around send
Reply_Uncaught(entry, fault) ==
    /\ op = "idle"
    /\ \E response \in {handleRequest(handlers, entry.request, Quiet, nodeEnv).response} :
         Finish("reply", [t |-> entry.t, request |-> entry.request,
                          response |-> response, fault |-> fault],
                reply([Fresh EXCEPT !.pending = @ \ {entry}], entry, response, fault))

\* a message handler of the server goes on after its await: handleRequest
\* has resolved, the response is sent, an error of send is caught and logged
Reply(entry, fault) ==
    /\ op = "idle"
    /\ \E response \in {handleRequest(handlers, entry.request, Quiet, nodeEnv).response} :
         Finish("reply", [t |-> entry.t, request |-> entry.request,
                          response |-> response, fault |-> fault],
                [reply([Fresh EXCEPT !.pending = @ \ {entry}], entry, response, fault)
                    EXCEPT !.threw = FALSE])

\* transportManager.broadcast(message)
Broadcast(message, faulty) ==
    /\ op = "idle"
    /\ Finish("broadcast", [message |-> message, faulty |-> faulty],
              Done(broadcast(Fresh, message, faulty, 1)))

\* transportManager.closeAll() is called and reaches its await
CloseAll(faulty) ==
    /\ op = "idle"
    /\ closing = <<>>
    /\ Finish("closeAll", [faulty |-> faulty], Done(closeAllStarted(Fresh, faulty)))

\* closeAll() goes on after Promise.allSettled and returns
CloseAllSettled ==
    /\ op = "idle"
    /\ closing /= <<>>
    /\ Finish("closeAllSettled", closing[1], Done(closeAllSettled(Fresh)))

\* the operation is over: its caller has the outcome
Settle ==
    /\ op /= "idle"
    /\ Finish("idle", Undef, Done(Fresh))

NextTransport ==
    \/ \E t \in TransportObjs : Connection(t)
    \/ \E t \in TransportObjs : CreateTransport(t)
    \/ \E id \in TransportIds, t \in TransportObjs : AddTransport(id, t)
    \/ \E id \in TransportIds : RemoveTransport(id)
    \/ \E t \in TransportObjs, message \in Outbound, fault \in BOOLEAN :
            Send(t, message, fault)
    \/ \E t \in TransportObjs : Close(t)
    \/ \E t \in TransportObjs : SocketDisconnect(t)
    \/ \E t \in TransportObjs : SocketConnect(t)
    \/ \E t \in TransportObjs : StdinEnd(t)
    \/ \E t \in TransportObjs, data \in Inbound : SocketMessage(t, data)
    \/ \E entry \in pending, fault \in BOOLEAN : Reply(entry, fault)
    \/ \E message \in Outbound, faulty \in SUBSET TransportObjs :
            Broadcast(message, faulty)
    \/ Settle

SpecTransport == InitTransport /\ [][NextTransport]_vars

-----------------------------------------------------------------------------
(* Shutdown: the life cycle of the transports with closeAll(), as          *)
(* MCPCareerIntelligenceServer.stop calls it, and the calls and events     *)
(* that can come before, between its two halves and after it.              *)

NextShutdown ==
    \/ \E t \in TransportObjs : Connection(t)
    \/ \E t \in TransportObjs : CreateTransport(t)
    \/ \E id \in TransportIds, t \in TransportObjs : AddTransport(id, t)
    \/ \E id \in TransportIds : RemoveTransport(id)
    \/ \E t \in TransportObjs : Close(t)
    \/ \E t \in TransportObjs : SocketDisconnect(t)
    \/ \E t \in TransportObjs : StdinEnd(t)
    \/ \E faulty \in SUBSET {transports[id] : id \in DOMAIN transports} :
            CloseAll(faulty)
    \/ CloseAllSettled
    \/ Settle

SpecShutdown == InitTransport /\ [][NextShutdown]_vars

-----------------------------------------------------------------------------
(* Paging: a client lists tools, resources or resource templates and asks  *)
(* for the next page with the nextCursor of each response, under a new     *)
(* request id, until a response carries none.                              *)

ListMethods == {"tools/list", "resources/list", "resources/templates/list"}

\* the ids a client that waits for the response gives its requests
PagingIds == {Num("1"), Str("req-a")}

\* the response carries a nextCursor
HasNextCursor(response) ==
    /\ response /= Undef
    /\ response.result /= Undef
    /\ Get(response.result, "nextCursor") /= Undef

\* one list request is handled and its response is with the client
Page(request) ==
    \E done \in {handleRequest(handlers, request, Quiet, nodeEnv)} :
       /\ op' = "page"
       /\ req' = request
       /\ world' = Quiet
       /\ resp' = done.response
       /\ stages' = done.ran
       /\ threw' = FALSE
       /\ arg' = Undef
       /\ handledBy' = done.by
       /\ how' = done.exit
       /\ prev' = handlers
       /\ handshake' = Advance(handshake, request, done.response)
       /\ UNCHANGED <<handlers, nodeEnv, tr, transports,
                 pending, emitted, tx, closing, stdin, db>>

\* the client asks for the first page
FirstPage(method, id, params) ==
    /\ op = "idle"
    /\ Page(Request(Str("2.0"), id, method, params))

\* the client sends the nextCursor it was given back as cursor
NextPage(id) ==
    /\ op = "page"
    /\ HasNextCursor(resp)
    /\ id /= req.id
    /\ Page(Request(Str("2.0"), id, req.method,
                    Obj([cursor |-> Get(resp.result, "nextCursor")])))

\* the response carries no nextCursor: the client has the whole list
LastPage ==
    /\ op = "page"
    /\ ~HasNextCursor(resp)
    /\ Return

NextPaging ==
    \/ \E method \in ListMethods, id \in PagingIds, params \in CursorParams :
            FirstPage(method, id, params)
    \/ \E id \in PagingIds : NextPage(id)
    \/ LastPage

\* the client goes on for as long as it has something to do
SpecPaging == Init /\ [][NextPaging]_vars /\ WF_vars(NextPaging)

-----------------------------------------------------------------------------
(* Standard input: a StdioTransport reading a stream of lines that arrives *)
(* in chunks of any size.                                                  *)

MaxLines == 2

\* the lines a client may write: requests, a notification, padded and empty
\* lines, envelopes parseMessage refuses, and text that is not JSON
StdinLines ==
    {<<"{", "a", "}">>,
     <<"{", "b", "}">>,
     <<Blank, "{", "a", "}", Blank>>,
     <<>>,
     <<"{", "v", "}">>,
     <<"{", "m", "}">>,
     <<"5">>,
     <<"{", "a">>}

\* the streams of at most n lines, each ended by a newline
RECURSIVE StreamsOf(_)
StreamsOf(n) ==
    IF n = 0
    THEN {<<>>}
    ELSE LET shorter == StreamsOf(n - 1)
         IN shorter \cup
            {stream \o line \o <<Newline>> : stream \in shorter, line \in StdinLines}

\* createTransport({type: 'stdio'}), alone or followed by
\* transportManager.addTransport(1, transport), and a client about to write
InitStdio ==
    /\ handlers = registerHandlers(EmptyMap, 1)
    /\ nodeEnv = "production"
    /\ handshake = "uninitialized"
    /\ op = "idle"
    /\ req = NoRequest
    /\ world = Quiet
    /\ resp = Undef
    /\ stages = <<>>
    /\ threw = FALSE
    /\ arg = Undef
    /\ handledBy = NoHandler
    /\ how = "none"
    /\ prev = handlers
    /\ db = EmptyDatabase
    /\ \E managed \in BOOLEAN, whole \in StreamsOf(MaxLines) :
         LET created == [tr |-> [t \in TransportObjs |->
                                    IF t = 1
                                    THEN NewTransport([Unmade EXCEPT !.kind = "stdio"])
                                    ELSE Unmade],
                         transports |-> EmptyMap,
                         pending |-> {},
                         emitted |-> <<>>,
                         tx |-> [t \in TransportObjs |-> <<>>],
                         closing |-> <<>>,
                         stdin |-> [NoInput EXCEPT !.whole = whole, !.rest = whole],
                         raised |-> FALSE]
             L == IF managed THEN addTransport(created, 1, 1).L ELSE created
         IN /\ tr = L.tr
            /\ transports = L.transports
            /\ pending = L.pending
            /\ emitted = L.emitted
            /\ tx = L.tx
            /\ closing = L.closing
            /\ stdin = L.stdin

\* process.stdin emits 'readable' and read() gives the next k characters;
\* null when there is none
Readable(t, k) ==
    /\ op = "idle"
    /\ kindOf(t) = "stdio"
    /\ tr[t].made
    /\ tr[t].channel
    /\ k \in 0..Len(stdin.rest)
    /\ LET chunk == SubSeq(stdin.rest, 1, k)
           taken == [Fresh EXCEPT !.stdin.rest = SubSeq(@, k + 1, Len(@))]
       IN Finish("readable", [t |-> t, chunk |-> chunk],
                 Done(IF k = 0 THEN taken ELSE handleStdinData(taken, t, chunk)))

NextStdio ==
    \/ \E t \in TransportObjs, k \in 0..(MaxLines * 6) : Readable(t, k)
    \/ \E t \in TransportObjs : StdinEnd(t)
    \/ Settle

SpecStdio == InitStdio /\ [][NextStdio]_vars

-----------------------------------------------------------------------------
(* Requests in flight: Socket.IO connections on which requests arrive      *)
(* while earlier ones are still being handled, and which may go away       *)
(* before their responses are sent.                                        *)

MaxInFlight == 2

\* the requests the clients send
Concurrent ==
    {Request(Str("2.0"), Num("1"), "tools/list", Undef),
     Request(Str("2.0"), Num("2"), "resources/list", Undef)}

\* the server is up and no client is connected; every transport will be a
\* WebSocketTransport
InitInFlight ==
    /\ handlers = registerHandlers(EmptyMap, 1)
    /\ nodeEnv = "production"
    /\ handshake = "uninitialized"
    /\ op = "idle"
    /\ req = NoRequest
    /\ world = Quiet
    /\ resp = Undef
    /\ stages = <<>>
    /\ threw = FALSE
    /\ arg = Undef
    /\ handledBy = NoHandler
    /\ how = "none"
    /\ prev = handlers
    /\ db = EmptyDatabase
    /\ tr = [t \in TransportObjs |-> Unmade]
    /\ transports = <<>>
    /\ pending = {}
    /\ emitted = <<>>
    /\ tx = [t \in TransportObjs |-> <<>>]
    /\ closing = <<>>
    /\ stdin = NoInput

\* the socket emits 'message' with a request while fewer than MaxInFlight
\* requests are being handled
RequestArrives(t, data) ==
    /\ op = "idle"
    /\ closing = <<>>
    /\ kindOf(t) = "websocket"
    /\ tr[t].made
    /\ tr[t].channel
    /\ Cardinality(pending) < MaxInFlight
    /\ Finish("message", [t |-> t, data |-> data], Done(socketMessage(Fresh, t, data)))

NextInFlight ==
    \/ \E t \in TransportObjs : Connection(t)
    \/ \E t \in TransportObjs, data \in Concurrent : RequestArrives(t, data)
    \/ \E entry \in pending, fault \in BOOLEAN : Reply(entry, fault)
    \/ \E t \in TransportObjs : SocketDisconnect(t)
    \/ \E t \in TransportObjs : Close(t)
    \/ Settle

SpecInFlight == InitInFlight /\ [][NextInFlight]_vars

-----------------------------------------------------------------------------
(* The CRUD repository over the store: projects are created and updated,   *)
(* with inputs that pass validation and inputs that do not.                *)

\* an input of create that passes every check
ValidProject ==
    [title |-> "Portfolio", company |-> "Acme", role |-> "Developer",
     start_date |-> "2024-01-15"]

Without(input, field) == [f \in DOMAIN input \ {field} |-> input[f]]

CreateInputs ==
    {ValidProject,
     [github_url |-> "https://github.com/u/p"] @@ ValidProject,
     Without(ValidProject, "title"),
     [title |-> "  "] @@ ValidProject,
     [start_date |-> "01/15/2024"] @@ ValidProject,
     [end_date |-> "2024-13-45"] @@ ValidProject,
     [github_url |-> "not-a-url"] @@ ValidProject,
     [status |-> "archived"] @@ ValidProject}

\* the fields an update carries besides the id
UpdateFields ==
    {<<>>,
     [title |-> "Renamed"],
     [title |-> ""],
     [start_date |-> "01/15/2024"],
     [status |-> "ongoing"],
     [status |-> "archived"],
     [description |-> ""],
     [github_url |-> "not-a-url"],
     [title |-> "Renamed", description |-> "Longer", status |-> "ongoing",
      impact_metric |-> "200%"]}

\* ids: 0, the ids of rows that may exist, and one that never does
UpdateInputs ==
    {("id" :> id) @@ fields : id \in 0..(MaxRows + 1), fields \in UpdateFields}

InitCrud ==
    /\ handlers = registerHandlers(EmptyMap, 1)
    /\ nodeEnv = "production"
    /\ handshake = "uninitialized"
    /\ op = "idle"
    /\ req = NoRequest
    /\ world = Quiet
    /\ resp = Undef
    /\ stages = <<>>
    /\ threw = FALSE
    /\ arg = Undef
    /\ handledBy = NoHandler
    /\ how = "none"
    /\ prev = handlers
    /\ db = EmptyDatabase
    /\ NoConnections

\* a CRUD method has run: the call record, with the store as it was before
CrudDone(name, input, done) ==
    /\ op' = name
    /\ arg' = [input |-> input, before |-> db]
    /\ resp' = done.response
    /\ threw' = FALSE
    /\ db' = done.store
    /\ UNCHANGED <<handlers, nodeEnv, handshake, req, world, stages, handledBy,
                   how, prev, tr, transports, pending, emitted, tx, closing, stdin>>

\* ProjectCrudRepository.create(input)
CreateProject(input) ==
    /\ op = "idle"
    /\ db.lastID < MaxRows
    /\ CrudDone("create", input, ProjectCreate(db, input))

\* ProjectCrudRepository.update(input)
UpdateProject(input) ==
    /\ op = "idle"
    /\ CrudDone("update", input, ProjectUpdate(db, input))

\* ids: a negative one, 0, the ids of rows that may exist, and one that
\* never does
DeleteIds == (0 - 1)..(MaxRows + 1)

\* ProjectCrudRepository.delete(projectId)
DeleteProject(projectId) ==
    /\ op = "idle"
    /\ CrudDone("delete", projectId, ProjectDelete(db, projectId))

NextCrud ==
    \/ \E input \in CreateInputs : CreateProject(input)
    \/ \E input \in UpdateInputs : UpdateProject(input)
    \/ \E projectId \in DeleteIds : DeleteProject(projectId)
    \/ Settle

SpecCrud == InitCrud /\ [][NextCrud]_vars

-----------------------------------------------------------------------------
(* Projects with achievements: the connection as importing the database    *)
(* module leaves it, with or without a later initializeDatabase().         *)

AchievementInputs ==
    {("id" :> id) @@ fields :
        id \in 0..(MaxRows + 1),
        fields \in {[title |-> "Shipped", description |-> "In a week",
                     achievement_type |-> "technical"],
                    [title |-> "", description |-> "In a week",
                     achievement_type |-> "technical"]}}

\* initializeDatabase(): PRAGMA foreign_keys = ON, then CREATE TABLE IF NOT
\* EXISTS for tables that exist
InitializeDatabase ==
    /\ op = "idle"
    /\ op' = "initializeDatabase"
    /\ arg' = Undef
    /\ resp' = Undef
    /\ threw' = FALSE
    /\ db' = [db EXCEPT !.foreignKeys = TRUE]
    /\ UNCHANGED <<handlers, nodeEnv, handshake, req, world, stages, handledBy,
                   how, prev, tr, transports, pending, emitted, tx, closing, stdin>>

\* AchievementCrudRepository.create(input)
CreateAchievement(input) ==
    /\ op = "idle"
    /\ db.lastAchievementID < MaxRows
    /\ CrudDone("createAchievement", input, AchievementCreate(db, input))

NextCascade ==
    \/ InitializeDatabase
    \/ \E input \in CreateInputs : CreateProject(input)
    \/ \E input \in AchievementInputs : CreateAchievement(input)
    \/ \E projectId \in DeleteIds : DeleteProject(projectId)
    \/ Settle

SpecCascade == InitCrud /\ [][NextCascade]_vars

-----------------------------------------------------------------------------
(* Properties *)

Handled == op = "handleRequest"

\* the request was dispatched to a handler object
Routed == Handled /\ handledBy /= NoHandler

HasResult(response) == response.result /= Undef
HasError(response) == response.error /= Undef

Ran(stage) == \E i \in 1..Len(stages) : stages[i] = stage

\* the keys an object schema names at its top level
TopLevelKeys(schema) ==
    IF schema = NoSchema THEN {} ELSE {schema.order[i] : i \in 1..Len(schema.order)}

\* the top-level keys a schema requires
RequiredKeys(schema) ==
    {key \in TopLevelKeys(schema) : schema.keys[key].required}

\* C1: a request dispatched to a registered method gets a response whose id
\* is the request's id, whichever return statement of handle produced it.
C1_IdEchoed ==
    (Handled /\ hasHandler(prev, req.method)) => resp.id = req.id

\* an unexpected failure of a request that carries a string id
C1_Witness ==
    /\ Routed
    /\ how = "unexpected"
    /\ req.id = Str("req-a")
    /\ resp.id = Str("req-a")

\* C2: every response of handleRequest has exactly one of result and error:
\* error alone when the request failed (no handler, a typed error, an
\* unexpected error), result alone when execute returned.
C2_ExactlyOneOfResultError ==
    Handled =>
        /\ HasResult(resp) /= HasError(resp)
        /\ how \in {"notFound", "known", "unexpected"} =>
                HasError(resp) /\ ~HasResult(resp)
        /\ how = "success" => HasResult(resp) /\ ~HasError(resp)

\* the initialized handler returned its empty result
C2_Witness ==
    /\ Routed
    /\ req.method = "initialized"
    /\ how = "success"
    /\ resp.result = EmptyObj
    /\ resp.error = Undef

\* C3: a request whose method has no handler gets, as a returned value, an
\* error response with code MethodNotFound and the request's id, and the
\* handler map is as before.
C3_MethodNotFound ==
    (Handled /\ ~hasHandler(prev, req.method)) =>
        /\ ~threw
        /\ HasError(resp) /\ ~HasResult(resp)
        /\ resp.error.code = METHOD_NOT_FOUND
        /\ resp.id = req.id
        /\ stages = <<>>
        /\ handlers = prev

C3_Witness ==
    /\ Handled
    /\ req.method = "ping"
    /\ req.id = Null
    /\ resp.error.code = METHOD_NOT_FOUND
    /\ resp.id = Null

\* C4: a request dispatched to a handler whose jsonrpc field is not the
\* literal "2.0" gets an error response with code InvalidRequest, and no
\* later stage runs.
C4_InvalidRequest ==
    (Routed /\ req.jsonrpc /= Str("2.0")) =>
        /\ HasError(resp) /\ ~HasResult(resp)
        /\ resp.error.code = INVALID_REQUEST
        /\ stages = <<"validateRequest">>

C4_Witness ==
    /\ Routed
    /\ req.method = "tools/list"
    /\ req.jsonrpc = Str("1.0")
    /\ resp.error.code = INVALID_REQUEST

\* C5: register for a method that is already bound throws and leaves the map
\* as it was, so the handler bound first is still the one a request for the
\* method is dispatched to.
C5_DuplicateRegistrationRejected ==
    /\ (op = "register" /\ hasHandler(prev, arg.method)) =>
            /\ threw
            /\ handlers = prev
            /\ getRegisteredMethods(handlers) = getRegisteredMethods(prev)
    /\ (op = "register" /\ ~hasHandler(prev, arg.method)) =>
            ~threw /\ handlers[arg.method] = arg
    /\ (Handled /\ hasHandler(handlers, req.method)) =>
            handledBy = handlers[req.method]

\* a second handler object for a bound method was refused
C5_Witness ==
    /\ op = "register"
    /\ threw
    /\ arg = Handler("tools/list", 2)
    /\ handlers["tools/list"] = Handler("tools/list", 1)

\* C6: handle runs structural validation, then parameter validation, then
\* execute, and stops at the first stage that fails.
C6_StagesInOrder ==
    Routed =>
        /\ stages \in {<<"validateRequest">>,
                       <<"validateRequest", "validateParams">>,
                       <<"validateRequest", "validateParams", "execute">>}
        /\ validateRequest(handledBy, req) /= Undef =>
                ~Ran("validateParams") /\ ~Ran("execute")
        /\ (validateRequest(handledBy, req) = Undef
                /\ validateParams(handledBy, req.params).thrown) =>
                ~Ran("execute") /\ how = "known"
        /\ how = "success" => Ran("execute")

\* parameter validation failed and execute did not run
C6_Witness ==
    /\ Routed
    /\ req.method = "tools/call"
    /\ req.params = EmptyObj
    /\ stages = <<"validateRequest", "validateParams">>

\* the request's params break the schema of its method: a required field is
\* missing (also when there are no params at all) or a value has the wrong type
ViolatesSchema(request) ==
    LET schema == getParamsSchema(request.method)
    IN /\ schema /= NoSchema
       /\ \/ request.params = Undef /\ RequiredKeys(schema) /= {}
          \/ JoiValidate(schema, request.params, <<>>) /= <<>>

\* C7: a request to a registered method whose params break the method's
\* schema gets InvalidParams with the violated constraints as data, and
\* execute does not run.
C7_InvalidParams ==
    (Routed /\ req.jsonrpc = Str("2.0") /\ ViolatesSchema(req)) =>
        /\ HasError(resp)
        /\ resp.error.code = INVALID_PARAMS
        /\ Get(resp.error.data, "validationDetails") /= Undef
        /\ ~Ran("execute")

\* the request has a top-level field its method's schema does not name, and
\* is valid once those fields are left out
ValidButForExtras(request) ==
    LET schema == getParamsSchema(request.method)
        params == request.params
        named == IF params.t = "object"
                 THEN Obj([key \in DOMAIN params.v \cap TopLevelKeys(schema) |->
                            params.v[key]])
                 ELSE params
    IN /\ params.t = "object"
       /\ DOMAIN params.v \ TopLevelKeys(schema) /= {}
       /\ schema /= NoSchema => JoiValidate(schema, named, <<>>) = <<>>

\* C8 as stated: params that are valid but for extra fields pass parameter
\* validation and are executed, for every registered method.
C8_ExtraFieldsTolerated ==
    (Routed /\ req.jsonrpc = Str("2.0") /\ ValidButForExtras(req)) => Ran("execute")

\* C8 as the code has it: a method with a params schema rejects a top-level
\* field the schema does not name with InvalidParams and does not execute;
\* initialized, which has no schema, executes.
C8_ExtraFieldsRejected ==
    (Routed /\ req.jsonrpc = Str("2.0") /\ ValidButForExtras(req)) =>
        IF getParamsSchema(req.method) = NoSchema
        THEN Ran("execute") /\ how = "success"
        ELSE /\ ~Ran("execute")
             /\ HasError(resp)
             /\ resp.error.code = INVALID_PARAMS
             /\ resp.error.data.v.validationDetails.v[1].type = "object.unknown"

C8_Witness ==
    /\ Routed
    /\ req.method = "tools/list"
    /\ req.params = Obj([cursor |-> Str("cursor-123"), verbose |-> Extra])
    /\ resp.error.code = INVALID_PARAMS
    /\ stages = <<"validateRequest", "validateParams">>

\* C9: a failure that is not a typed MCPError is answered with InternalError
\* and the fixed message, with no data unless NODE_ENV is development.
C9_UnexpectedFailureIsInternalError ==
    (Handled /\ how = "unexpected") =>
        /\ HasError(resp) /\ ~HasResult(resp)
        /\ resp.error.code = INTERNAL_ERROR
        /\ resp.error.message = <<"Internal server error">>
        /\ nodeEnv /= "development" => resp.error.data = Undef

\* the Notion client failed under resources/read in production
C9_Witness ==
    /\ Routed
    /\ req.method = "resources/read"
    /\ world = [db |-> TRUE, notion |-> "fail"]
    /\ how = "unexpected"
    /\ nodeEnv = "production"
    /\ resp.error.code = INTERNAL_ERROR
    /\ resp.error.data = Undef

\* an initialize request that reaches execute with a protocolVersion other
\* than the supported one
UnsupportedInitialize(request) ==
    /\ request.method = "initialize"
    /\ request.jsonrpc = Str("2.0")
    /\ request.params /= Undef
    /\ JoiValidate(InitializeSchema, request.params, <<>>) = <<>>
    /\ Get(request.params, "protocolVersion") /= Str("2024-11-05")

\* C10: an initialize request whose protocolVersion is not exactly the
\* supported version gets InitializationFailed with the supported-version
\* list as data, and the handshake stays where it was: uninitialized stays
\* uninitialized.
C10_UnsupportedVersionRejected ==
    [][(op' = "handleRequest" /\ handledBy' /= NoHandler
            /\ UnsupportedInitialize(req')) =>
        /\ HasError(resp') /\ ~HasResult(resp')
        /\ resp'.error.code = INITIALIZATION_FAILED
        /\ resp'.error.data = Obj([supportedVersions |-> Arr(<<"2024-11-05">>)])
        /\ handshake' = handshake
        /\ handshake = "uninitialized" => handshake' = "uninitialized"]_vars

C10_Witness ==
    /\ Routed
    /\ req.params = InitializeParams(Str("2024-11"), EmptyObj, ClientInfo)
    /\ resp.error.code = INITIALIZATION_FAILED
    /\ handshake = "uninitialized"

\* an initialize request that reaches execute with the supported protocolVersion
SupportedInitialize(request) ==
    /\ request.method = "initialize"
    /\ request.jsonrpc = Str("2.0")
    /\ request.params /= Undef
    /\ JoiValidate(InitializeSchema, request.params, <<>>) = <<>>
    /\ Get(request.params, "protocolVersion") = Str("2024-11-05")

\* C11: an initialize request that passes validation with the supported
\* protocolVersion gets a result whose protocolVersion is that version and
\* whose capabilities are the fixed server capability set, and every other
\* such request with the same id, whatever capabilities and clientInfo it
\* declares, gets the same response.
C11_InitializeResultFixed ==
    (Routed /\ SupportedInitialize(req)) =>
        /\ how = "success"
        /\ HasResult(resp) /\ ~HasError(resp)
        /\ Get(resp.result, "protocolVersion") = Get(req.params, "protocolVersion")
        /\ Get(resp.result, "capabilities") = serverCapabilities
        /\ \A other \in RequestsFor("initialize") :
                (SupportedInitialize(other) /\ other.id = req.id) =>
                    handleRequest(handlers, other, Quiet, nodeEnv).response = resp

\* a client that declares the tools capability gets the server's fixed set
C11_Witness ==
    /\ Routed
    /\ how = "success"
    /\ req.params = InitializeParams(Str("2024-11-05"),
                        Obj([tools |-> Obj([listChanged |-> Bool("true")])]), ClientInfo)
    /\ Get(resp.result, "capabilities") = serverCapabilities
    /\ Get(resp.result, "capabilities") /= Get(req.params, "capabilities")

HandshakeStates == {"uninitialized", "initializing", "initialized"}

\* C12: there is no handshake gate.  Whatever the handshake was when a request
\* to a registered method arrived, its response is the one the method's
\* handler gives for that request on its own, and an initialized notification
\* with a well-formed envelope is accepted with the empty result.
C12_NoHandshakeGate ==
    [][(op' = "handleRequest" /\ hasHandler(handlers, req'.method)) =>
        /\ handshake \in HandshakeStates
        /\ handledBy' = handlers[req'.method]
        /\ resp' = handle(handlers[req'.method], req', world', nodeEnv).response
        /\ (req'.method = "initialized" /\ req'.jsonrpc = Str("2.0")) =>
                how' = "success" /\ resp'.result = EmptyObj]_vars

\* initialized was accepted although no initialize had succeeded
C12_Witness ==
    /\ Routed
    /\ req.method = "initialized"
    /\ how = "success"
    /\ resp.result = EmptyObj
    /\ handshake = "uninitialized"

\* C13: when the message a connection received has no id, the server's
\* message handler puts nothing on that connection.
C13_NoResponseToNotification ==
    (op = "reply" /\ arg.request.id = Undef) => tx[arg.t] = <<>>

C16_ClosedIsTerminal ==
    \A t \in TransportObjs :
        tr[t].closed =>
            /\ ~isConnected(Layer, t)
            /\ \A message \in Outbound : send(Layer, t, message, FALSE).threw

\* C17: addTransport with an id the manager already holds throws an
\* InternalError, the entry under the id stays, and the transport that was
\* refused has no listener more than before; with a free id the transport is
\* filed under it.  The same holds for the addTransport call of the server's
\* connection listener.
C17_DuplicateTransportRejected ==
    [][op' \in {"addTransport", "connection"} =>
        IF arg'.id \in DOMAIN transports
        THEN /\ threw'
             /\ resp'.kind = "MCPError"
             /\ resp'.code = INTERNAL_ERROR
             /\ transports' = transports
             /\ tr'[arg'.t].listeners = tr[arg'.t].listeners
             /\ \A t \in TransportObjs \ {arg'.t} : tr'[t] = tr[t]
        ELSE /\ ~threw'
             /\ transports' = MapSet(transports, arg'.id, arg'.t)]_vars

\* a second transport was refused under the id of the first
C17_Witness ==
    /\ op = "addTransport"
    /\ threw
    /\ resp.code = INTERNAL_ERROR
    /\ arg.id \in DOMAIN transports
    /\ transports[arg.id] /= arg.t
    /\ tr[arg.t].listeners = <<>>

\* C18: when a transport filed under an id emits 'close', the manager emits
\* 'transport:close' tagged with that id, and while the listeners of that
\* event run the id is bound to nothing; afterwards it is still unbound.
\* The manager emits 'transport:close' for no other id.
C18_RemovedBeforeTransportClose ==
    [][\A t \in TransportObjs :
        tr'[t].closes > tr[t].closes =>
            /\ \A id \in DOMAIN transports :
                    transports[id] = t =>
                        /\ \E i \in 1..Len(emitted') :
                                emitted'[i] = [name |-> "transport:close", id |-> id,
                                               payload |-> Undef, gone |-> TRUE]
                        /\ id \notin DOMAIN transports'
            /\ \A i \in 1..Len(emitted') :
                    emitted'[i].name = "transport:close" =>
                        /\ emitted'[i].gone
                        /\ \E j \in 1..Len(tr[t].listeners) :
                                tr[t].listeners[j] = ManagerListener(emitted'[i].id)]_vars

\* the client of a connection the server had filed under its socket id left
C18_Witness ==
    /\ op = "disconnect"
    /\ tr[arg.t].hooked
    /\ tr[arg.t].closes = 1
    /\ emitted = <<[name |-> "transport:close", id |-> arg.t,
                    payload |-> Undef, gone |-> TRUE]>>
    /\ arg.t \notin DOMAIN transports

\* C19: removeTransport(id) does not throw and leaves the id unbound, so that
\* getActiveCount() is the number of the other entries whose transport is
\* connected; for an id that was bound the entry is deleted and the
\* listeners of its transport are detached, for an id that was not bound
\* (removed before, or never added) nothing changes.
C19_RemoveTransport ==
    [][op' = "removeTransport" =>
        /\ ~threw'
        /\ arg'.id \notin DOMAIN transports'
        /\ getActiveCount(Layer') =
                Cardinality({id \in DOMAIN transports \ {arg'.id} :
                                isConnected(Layer, transports[id])})
        /\ IF arg'.id \in DOMAIN transports
           THEN /\ transports' = MapDelete(transports, arg'.id)
                /\ tr' = [tr EXCEPT ![transports[arg'.id]].listeners = <<>>]
           ELSE /\ transports' = transports
                /\ tr' = tr
        /\ pending' = pending
        /\ emitted' = <<>>]_vars

\* the server's connection was taken out while the stdio transport stays filed
C19_Witness ==
    /\ op = "removeTransport"
    /\ kindOf(arg.id) = "websocket"
    /\ tr[arg.id].hooked
    /\ isConnected(Layer, arg.id)
    /\ tr[arg.id].listeners = <<>>
    /\ arg.id \notin DOMAIN transports
    /\ DOMAIN transports /= {}
    /\ getActiveCount(Layer) = 1

\* the transports the manager holds
Held == {transports[id] : id \in DOMAIN transports}

\* C20: broadcast(message) resolves without raising, and every transport the
\* manager holds that is connected and whose channel takes the write gets
\* the message exactly once, whatever the state of the other transports: one
\* that is disconnected is skipped, one whose write throws is logged.
\* Nothing else changes.
C20_BroadcastIsolatesFailures ==
    [][op' = "broadcast" =>
        /\ ~threw'
        /\ \A t \in TransportObjs :
                tx'[t] = IF t \in Held /\ isConnected(Layer, t) /\ t \notin arg'.faulty
                         THEN <<arg'.message>>
                         ELSE <<>>
        /\ tr' = tr
        /\ transports' = transports]_vars

\* a held transport that is disconnected or fails on write comes before
\* another in the map, and every other held transport got the notification
C20_Witness ==
    /\ op = "broadcast"
    /\ Cardinality(Held) = Cardinality(DOMAIN transports)
    /\ \E gone \in Held :
            /\ ~isConnected(Layer, gone) \/ gone \in arg.faulty
            /\ tx[gone] = <<>>
            /\ Held \ {gone} /= {}
            /\ \A t \in Held \ {gone} : tx[t] = <<arg.message>>
            /\ \E id \in DOMAIN transports :
                    /\ transports[id] = gone
                    /\ \E later \in DOMAIN transports : later > id

\* C21: closeAll() calls close() on every transport the manager holds when it
\* is called, whatever the close() of another does (a close that rejects
\* leaves the others closed and closeAll does not reject); it goes on only
\* after those closes have settled, and when it returns the map is empty and
\* getActiveCount() is 0.
C21_CloseAll ==
    [][/\ op' = "closeAll" =>
            /\ ~threw'
            /\ closing' = <<[called |-> Held,
                             rejected |-> {t \in Held \cap arg'.faulty : tr[t].connected}]>>
            /\ \A t \in Held :
                    \/ t \in closing'[1].rejected
                    \/ tr'[t].closed /\ ~tr'[t].connected
       /\ op' = "closeAllSettled" =>
            /\ ~threw'
            /\ arg' = closing[1]
            /\ \A t \in arg'.called \ arg'.rejected : tr'[t].closed
            /\ transports' = <<>>
            /\ getActiveCount(Layer') = 0
            /\ closing' = <<>>]_vars

\* closeAll() has returned after the close() of one transport rejected and
\* that of another took effect
C21_Witness ==
    /\ op = "closeAllSettled"
    /\ arg.rejected /= {}
    /\ arg.called \ arg.rejected /= {}
    /\ \A t \in arg.called \ arg.rejected : tr[t].closed /\ ~tr[t].connected
    /\ transports = <<>>
    /\ getActiveCount(Layer) = 0

\* the characters of stdin that were read so far
Consumed == SubSeq(stdin.whole, 1, Len(stdin.whole) - Len(stdin.rest))

\* the lines of a text that a newline ends, trimmed, without the empty ones
CompleteLines(text) ==
    LET pieces == split(text, <<>>)
    IN SelectSeq([i \in 1..(Len(pieces) - 1) |-> trim(pieces[i])],
                 LAMBDA line : line /= <<>>)

\* what follows the last newline of a text
Fragment(text) == LET pieces == split(text, <<>>) IN pieces[Len(pieces)]

\* every line of the text is a JSON-RPC message parseMessage accepts
AllValid(text) ==
    \A i \in 1..Len(CompleteLines(text)) : ~parseMessage(CompleteLines(text)[i]).thrown

\* the 'message' events the lines of a text make when each is parsed
MessagesOf(text) ==
    [i \in 1..Len(CompleteLines(text)) |->
        [name |-> "message", payload |-> parseMessage(CompleteLines(text)[i]).value]]

\* C22: when every line written to stdin is a valid JSON-RPC message, then
\* however the stream was split into reads, the events of the transport so
\* far are the 'message' events of the complete lines read so far, in order,
\* and the incomplete last line is kept in the buffer for the next read
C22_ReadsSplitAnywhere ==
    AllValid(stdin.whole) =>
        /\ stdin.events = MessagesOf(Consumed)
        /\ tr[1].messageBuffer = Fragment(Consumed)

\* two different messages came out of a stream whose last read began in the
\* middle of a line
C22_Witness ==
    /\ op = "readable"
    /\ AllValid(stdin.whole)
    /\ stdin.rest = <<>>
    /\ Len(arg.chunk) \in 1..3
    /\ Len(stdin.events) = 2
    /\ stdin.events[1].payload /= stdin.events[2].payload
    /\ stdin.events = MessagesOf(stdin.whole)

\* the 'message' events of the lines of a text that parseMessage accepts
ValidMessagesOf(text) ==
    LET accepted == SelectSeq(CompleteLines(text),
                              LAMBDA line : ~parseMessage(line).thrown)
    IN [i \in 1..Len(accepted) |->
           [name |-> "message", payload |-> parseMessage(accepted[i]).value]]

\* C23: each complete line is parsed on its own: with a listener for 'error'
\* attached, every line read so far that is a valid message was emitted as
\* 'message', whatever lines came before it in the same read, and the
\* transport is still connected while stdin has not ended and close() was
\* not called
C23_LinesParsedIndependently ==
    tr[1].listeners /= <<>> =>
        /\ SelectSeq(stdin.events, LAMBDA e : e.name = "message")
              = ValidMessagesOf(Consumed)
        /\ (tr[1].channel /\ ~tr[1].closed => isConnected(Layer, 1))

\* the codes parseMessage throws for the lines of a text that it refuses
RefusedCodes(text) ==
    {parseMessage(CompleteLines(text)[i]).error.code :
        i \in {j \in 1..Len(CompleteLines(text)) :
                  parseMessage(CompleteLines(text)[j]).thrown}}

\* C24: the error of an 'error' event of the transport carries the code of
\* the failure it reports: ParseError for a line that is not JSON,
\* InvalidRequest for a line whose envelope is violated; so the code of
\* every 'error' event is the code parseMessage threw for a line read so far
C24_ErrorEventCarriesKind ==
    \A i \in 1..Len(stdin.events) :
        stdin.events[i].name = "error" =>
            stdin.events[i].payload.code \in RefusedCodes(Consumed)

\* C25: with several requests in flight, in whatever order the handlers
\* complete: the step that completes a request takes that request and no
\* other out of flight and, when its connection is open and the send does
\* not fail, sends on that connection exactly one response, which carries
\* the id of the request; it sends nothing on another connection; and no
\* other step sends a response or takes a request out of flight
C25_EachAnsweredOnce ==
    [][IF op' = "reply"
       THEN LET entry == [t |-> arg'.t, request |-> arg'.request]
            IN /\ entry \in pending
               /\ pending' = pending \ {entry}
               /\ \A u \in TransportObjs \ {entry.t} : tx'[u] = <<>>
               /\ (tr[entry.t].connected /\ tr[entry.t].channel /\ ~arg'.fault =>
                     /\ tx'[entry.t] = <<arg'.response>>
                     /\ arg'.response.id = entry.request.id)
       ELSE /\ pending \subseteq pending'
            /\ \A u \in TransportObjs : tx'[u] = <<>>]_vars

\* request 2 was answered on a connection on which request 1 is still in
\* flight, and the turn of request 1 comes after it
C25_Witness ==
    /\ op = "reply"
    /\ arg.request.id = Num("2")
    /\ tx[arg.t] = <<arg.response>>
    /\ arg.response.id = Num("2")
    /\ \E entry \in pending : entry.t = arg.t /\ entry.request.id = Num("1")

\* the response a request in flight is heading for
ResponseFor(entry) == handleRequest(handlers, entry.request, Quiet, nodeEnv).response

\* C26: when the connection of a request was closed while its handler ran,
\* the handler still completed with a response for the request; the send
\* failed with a TransportError, which was logged: nothing went out on the
\* closed connection, the request is not in flight again, and nothing was
\* thrown out of the message handler; the requests in flight on connections
\* that are open get their responses when their sends work
C26_ClosedWhileHandling ==
    (op = "reply" /\ ~tr[arg.t].connected) =>
        /\ arg.response.id = arg.request.id
        /\ HasResult(arg.response) \/ HasError(arg.response)
        /\ resp /= Undef
        /\ resp.kind = "MCPError"
        /\ resp.code = TRANSPORT_ERROR
        /\ tx[arg.t] = <<>>
        /\ [t |-> arg.t, request |-> arg.request] \notin pending
        /\ ~threw
        /\ \A entry \in pending :
              isConnected(Layer, entry.t) =>
                  LET sent == reply(Fresh, entry, ResponseFor(entry), FALSE)
                  IN /\ ~sent.threw
                     /\ sent.L.tx[entry.t] = <<ResponseFor(entry)>>

\* the response of a request could not be sent because its connection was
\* closed, while a request is in flight on another connection, which is open
C26_Witness ==
    /\ op = "reply"
    /\ ~tr[arg.t].connected
    /\ resp /= Undef
    /\ resp.code = TRANSPORT_ERROR
    /\ \E entry \in pending : entry.t /= arg.t /\ isConnected(Layer, entry.t)

\* the call of the Notion client made by a tool of tools/call failed
ToolProviderFailed ==
    /\ Routed
    /\ req.method = "tools/call"
    /\ UsesNotion(req)
    /\ Ran("execute")
    /\ world.db
    /\ world.notion /= "ok"

\* C27: when the Notion client call of a tools/call tool fails, the response
\* is an error response with code ToolExecutionError, whatever the message of
\* the client's error, and never a result
C27_ProviderFailureIsToolExecutionError ==
    ToolProviderFailed =>
        /\ HasError(resp)
        /\ ~HasResult(resp)
        /\ resp.error.code = TOOL_EXECUTION_ERROR

\* execute of resources/read ran with a uri that does not start with notion://
UnsupportedSchemeRead ==
    /\ Routed
    /\ req.method = "resources/read"
    /\ Ran("execute")
    /\ ~ReadsUndefined(req.params)
    /\ ~startsWithNotion(Get(req.params, "uri").v)

\* C28: a resources/read request that passes validation and whose uri does
\* not start with notion:// gets an error response with code
\* ResourceNotFound, the id of the request and no result; the Notion client
\* is not called: the response is the same whatever the client would do
C28_UnsupportedSchemeNotFound ==
    UnsupportedSchemeRead =>
        /\ HasError(resp)
        /\ ~HasResult(resp)
        /\ resp.error.code = RESOURCE_NOT_FOUND
        /\ resp.id = req.id
        /\ \A down \in Worlds :
              handleRequest(handlers, req, down, nodeEnv).response = resp

\* a request with an id for a uri of another scheme was refused
C28_Witness ==
    /\ UnsupportedSchemeRead
    /\ Get(req.params, "uri") = Str("scheme://unknown/path")
    /\ req.id /= Undef
    /\ resp.id = req.id
    /\ resp.error.code = RESOURCE_NOT_FOUND
    /\ resp.error.message = <<"Unsupported URI scheme: ", "scheme://unknown/path">>

\* handleRequest for a method answers MethodNotFound
AnswersMethodNotFound(method) ==
    LET done == handleRequest(handlers, Request(Str("2.0"), Num("1"), method, Undef),
                              Quiet, nodeEnv)
    IN /\ done.by = NoHandler
       /\ HasError(done.response)
       /\ done.response.error.code = METHOD_NOT_FOUND

\* what unregister and clear do to the map, whatever they return: the
\* binding, or every binding, is gone, no other binding is touched, a second
\* call would change nothing, and handleRequest refuses the methods removed
RemovalDone ==
    /\ op = "unregister" =>
            /\ ~threw
            /\ ~hasHandler(handlers, arg.v)
            /\ \A method \in DOMAIN prev \ {arg.v} :
                    getHandler(handlers, method) = prev[method]
            /\ DOMAIN handlers \subseteq DOMAIN prev
            /\ MapDelete(handlers, arg.v) = handlers
            /\ AnswersMethodNotFound(arg.v)
    /\ op = "clear" =>
            /\ ~threw
            /\ handlers = EmptyMap
            /\ \A method \in DOMAIN prev : AnswersMethodNotFound(method)

\* C29 as stated: unregister and clear are idempotent, each returns true
\* when a binding was removed and false when nothing was bound, and
\* handleRequest for a removed method answers MethodNotFound
C29_BothReportRemoval ==
    /\ RemovalDone
    /\ op = "unregister" =>
            resp = Bool(IF hasHandler(prev, arg.v) THEN "true" ELSE "false")
    /\ op = "clear" =>
            resp = Bool(IF prev /= EmptyMap THEN "true" ELSE "false")

\* C29 as the code has it: unregister and clear are idempotent and
\* handleRequest for a removed method answers MethodNotFound; unregister
\* returns true when a binding was removed and false when nothing was bound,
\* and clear returns nothing
C29_UnregisterReportsRemoval ==
    /\ RemovalDone
    /\ op = "unregister" =>
            resp = Bool(IF hasHandler(prev, arg.v) THEN "true" ELSE "false")
    /\ op = "clear" => resp = Undef

\* a binding was removed while another stayed
C29_Witness ==
    /\ op = "unregister"
    /\ hasHandler(prev, arg.v)
    /\ resp = Bool("true")
    /\ handlers /= EmptyMap
    /\ AnswersMethodNotFound(arg.v)

\* C30: an update with an id that matches no project returns success =
\* false and leaves every row as it was; an update that changes a row
\* returns success = true
C30_UpdateReportsMissingProject ==
    op = "update" =>
        /\ (~MissingId(arg.input) /\ arg.input["id"] \notin DOMAIN arg.before.projects) =>
                /\ resp.success = FALSE
                /\ db = arg.before
        /\ db /= arg.before => resp.success = TRUE

\* C31: on the connection that importing the database module opens, without
\* initializeDatabase(), once delete(id) has succeeded no achievement row
\* references project id
C31_DeleteCascades ==
    (op = "delete" /\ resp.success /\ ~db.foreignKeys) =>
        \A a \in DOMAIN db.achievements : db.achievements[a].project_id /= arg.input

\* C32: delete with an id that matches no project, or with an id that is
\* not positive, returns success = false and leaves every table as it was
C32_DeleteRejectsUnknownId ==
    (op = "delete" /\ (arg.input <= 0 \/ arg.input \notin DOMAIN arg.before.projects)) =>
        /\ resp.success = FALSE
        /\ db = arg.before

\* a delete for an id that no row has was refused while rows exist
C32_Witness ==
    /\ op = "delete"
    /\ arg.input = MaxRows + 1
    /\ db.projects /= <<>>
    /\ resp.success = FALSE
    /\ db = arg.before

\* the input of create misses a required field, or has a start_date that is
\* not a date in YYYY-MM-DD form, or a github_url that is not a URL
FailsCreateValidation(input) ==
    \/ \E field \in {"title", "company", "role", "start_date"} : Missing(input, field)
    \/ ~validateDateFormat(input["start_date"])
    \/ Given(input, "github_url") /\ input["github_url"] \notin ValidURLs \cup {""}

\* C33: a create whose input fails validation inserts no row and returns
\* success = false; an update with an id and no other field changes no row
\* and returns success = false
C33_FailedValidationChangesNothing ==
    /\ (op = "create" /\ FailsCreateValidation(arg.input)) =>
            /\ resp.success = FALSE
            /\ db = arg.before
    /\ (op = "update" /\ DOMAIN arg.input = {"id"} /\ arg.input["id"] /= 0) =>
            /\ resp.success = FALSE
            /\ db = arg.before

\* an update that names only the id of an existing row was refused
C33_Witness ==
    /\ op = "update"
    /\ DOMAIN arg.input = {"id"}
    /\ arg.input["id"] \in DOMAIN db.projects
    /\ resp.success = FALSE
    /\ resp.error = <<"No fields provided to update">>
    /\ db = arg.before

\* C34: a 'close' event of a transport (stdin ends, or the socket of a
\* transport without the server's own disconnect listener goes away) leaves
\* every registry entry that holds another transport in place, with that
\* transport's listeners attached as before
C34_CloseRemovesOwnEntryOnly ==
    [][(op = "idle" /\ op' \in {"end", "disconnect"} /\ ~tr[arg'.t].hooked) =>
          \A id \in DOMAIN transports :
              transports[id] /= arg'.t =>
                  /\ id \in DOMAIN transports'
                  /\ transports'[id] = transports[id]
                  /\ tr'[transports[id]].listeners = tr[transports[id]].listeners]_vars

\* C35: every transport that closeAll() drops from the registry when it
\* goes on after its await has had close() called on it, by this closeAll or
\* before it (or its channel has ended)
C35_DroppedTransportsWereClosed ==
    [][op' = "closeAllSettled" =>
          \A id \in DOMAIN transports :
              \/ transports[id] \in closing[1].called
              \/ tr[transports[id]].closed]_vars

\* C36: a client that lists tools, resources or resource templates and
\* sends each nextCursor back as cursor comes to a response without
\* nextCursor and stops
C36_PagingTerminates == (op = "page") ~> (op = "idle")

\* the methods registered and not since removed, after a step of the
\* registry that began with the methods in before
RegisteredAfter(before) ==
    CASE op' = "register" /\ ~threw' -> before \cup {arg'.method}
      [] op' = "unregister" -> before \ {arg'.v}
      [] op' = "clear" -> {}
      [] OTHER -> before

\* C37: after any sequence of register, unregister and clear every key of
\* the handler map is the method of the handler stored under it; a request
\* that is routed to a handler passes the handler's method-mismatch check;
\* and getRegisteredMethods() is the set of methods registered and not
\* since removed (it starts empty and every step changes it as
\* RegisteredAfter says)
C37_KeysAreBoundMethods ==
    /\ [](/\ \A key \in DOMAIN handlers : handlers[key].method = key
          /\ (op = "handleRequest" /\ handledBy /= NoHandler) =>
                /\ handledBy.method = req.method
                /\ handledBy = handlers[req.method]
                /\ req.jsonrpc = Str("2.0") =>
                       /\ validateRequest(handledBy, req) = Undef
                       /\ Len(stages) >= 2)
    /\ [][getRegisteredMethods(handlers') =
             RegisteredAfter(getRegisteredMethods(handlers))]_vars

\* a handler registered after the first one for its method was removed is
\* the one a request for that method is routed to, and it runs
C37_Witness ==
    /\ op = "handleRequest"
    /\ handledBy = Handler("tools/list", 2)
    /\ handlers["tools/list"] = Handler("tools/list", 2)
    /\ Cardinality(getRegisteredMethods(handlers)) = MaxBound
    /\ stages = <<"validateRequest", "validateParams", "execute">>
    /\ resp.result /= Undef

\* C38: when a socket delivers a payload that handleMessage refuses, the
\* socket's 'message' listener of the transport returns without an
\* exception, whether or not an 'error' listener is attached
C38_MalformedInputNeverRaises ==
    (op = "message" /\ handleMessage(arg.data).thrown) => ~threw

====
